---- MODULE Spec2Model ----
(***************************************************************************)
(* A model of filemapper's compression shim (compdb.c), its offline        *)
(* shrinker (shrinkmapper.c, compress.c) and the mappers' extent           *)
(* coalescers (xfsmapper.c, e2mapper.c, fatmapper.c).                      *)
(*                                                                         *)
(* Conventions.  The host does full-page I/O, so a byte offset iOfst is    *)
(* kept as the page number pg = iOfst / pagesize and a file size as        *)
(* [pg, frac] (pg whole pages and frac bytes).  C's 32-bit products of a   *)
(* page count and the page size wrap at 2^32 bytes, that is at             *)
(* Pages4G(pagesize) = 2^32 / pagesize pages.                              *)
(*                                                                         *)
(* A page of bytes is a record [head, len, off, tag, c, i, p, n]:          *)
(*   head  what the first bytes spell: a 16-byte file header, "DAAD" for   *)
(*         the two magic bytes of a compressed block, "data" for the       *)
(*         first byte of a b-tree page, "zero" for zero bytes;             *)
(*   len, off  bytes 2..3 and 4..7 read as big-endian numbers when head    *)
(*         is "DAAD" (struct compdb_block_head), 0 otherwise;              *)
(*   tag   what the rest holds:                                            *)
(*         "raw"  the bytes of host buffer i (buffer 0 is all zeros); when *)
(*                p > 0 only its first p bytes, followed by zeros;         *)
(*         "z"    the first n bytes of codec c's stream of that source;    *)
(*         "garb" bytes that are no codec's stream.                        *)
(***************************************************************************)
EXTENDS Integers, Sequences, FiniteSets, TLC

VARIABLES
    cengine,      \* compdb_vfs.compressor of the registered shim
    hdr,          \* COMPDB_FILE_HEADER, written by compdb_init
    file,         \* the underlying file: [pages, size]
    opened,       \* the host holds an open handle on the file
    ff,           \* struct compdb_file of the open handle
    written,      \* per page, the host buffer of the last successful write (0: none)
    lastOp,       \* what the last call through the shim did
    sk,           \* the shrinker's run
    co,           \* the mappers' coalescers
    mp            \* the mappers' bitmaps, range maps, inode walks and runs

vars == <<cengine, hdr, file, opened, ff, written, lastOp, sk, co, mp>>

\* what the mappers leave alone: the shim, the shrinker and the coalescers
others == <<cengine, hdr, file, opened, ff, written, lastOp, sk, co>>

-----------------------------------------------------------------------------
(* Program constants *)

BHEAD_SIZE == 8
DB_UNKNOWN == 0
DB_REGULAR == 1
DB_COMPRESSED == 2
SQLITE_FILE_HEADER == "SQLite format 3"
COMPDB_BLOCK_MAGIC == "DAAD"

\* snprintf(COMPDB_FILE_HEADER, 16, "SQLite %s v.3", name)
COMPDB_FILE_TEMPLATE(name) ==
    CASE name = "GZIP" -> "SQLite GZIP v.3"
      [] name = "LZ4D" -> "SQLite LZ4D v.3"
      [] name = "LZ4H" -> "SQLite LZ4H v.3"
      [] name = "LZMA" -> "SQLite LZMA v.3"
      [] name = "BZ2A" -> "SQLite BZ2A v.3"

\* compdb.c's registry and compress.c's (the shrinker's)
compressors == {"GZIP", "LZ4D", "LZ4H"}
shrink_compressors == {"GZIP", "LZ4D", "LZ4H", "LZMA", "BZ2A"}

\* 2^32 bytes counted in pages of ps bytes (ps a power of two up to 65536)
Pages4G(ps) == (65536 \div ps) * 65536

Min(a, b) == IF a < b THEN a ELSE b
Max(a, b) == IF a > b THEN a ELSE b

-----------------------------------------------------------------------------
(* The host's buffers.  Superblocks (page 0) are ids 1..NSuper, data pages *)
(* the ids after them.                                                     *)

\* struct sqlite3_super: the fields compdb_sniff reads
SuperT == <<
    \* a new 64K-page database: no freelist
    [magic |-> SQLITE_FILE_HEADER, pagesize |-> 1, max_fraction |-> 64,
     min_fraction |-> 32, leaf_payload |-> 32, schema_format |-> 4,
     freelist_start |-> 0, freelist_pages |-> 0],
    \* a 4K-page database whose freelist trunk is page 1
    [magic |-> SQLITE_FILE_HEADER, pagesize |-> 4096, max_fraction |-> 64,
     min_fraction |-> 32, leaf_payload |-> 32, schema_format |-> 4,
     freelist_start |-> 1, freelist_pages |-> 0],
    \* a 64K-page database larger than 4 GiB whose freelist trunk is page 65536
    [magic |-> SQLITE_FILE_HEADER, pagesize |-> 1, max_fraction |-> 64,
     min_fraction |-> 32, leaf_payload |-> 32, schema_format |-> 4,
     freelist_start |-> 65536, freelist_pages |-> 0],
    \* not a database: a schema format the sniffer rejects
    [magic |-> SQLITE_FILE_HEADER, pagesize |-> 1, max_fraction |-> 64,
     min_fraction |-> 32, leaf_payload |-> 32, schema_format |-> 5,
     freelist_start |-> 0, freelist_pages |-> 0],
    \* not a database: no known magic
    [magic |-> "junk", pagesize |-> 1, max_fraction |-> 64,
     min_fraction |-> 32, leaf_payload |-> 32, schema_format |-> 4,
     freelist_start |-> 0, freelist_pages |-> 0] >>

NSuper == Len(SuperT)
SuperIds == 1..NSuper

\* data pages: ent is how well the bytes compress
\*   "low"  every codec's stream is short
\*   "mid"  only the stream of a codec with an entropy coder (GZIP, LZMA,
\*          BZ2A) fits page_size - 8
\*   "high" no codec's stream fits
\* and drain whether such a codec's library takes in the whole page before
\* its output buffer is full
DataT == <<
    [head |-> "data", ent |-> "low", drain |-> TRUE],
    [head |-> "data", ent |-> "high", drain |-> FALSE],
    [head |-> "data", ent |-> "mid", drain |-> TRUE],
    [head |-> "data", ent |-> "high", drain |-> TRUE] >>

DataIds == (NSuper + 1)..(NSuper + Len(DataT))
Ent(i) == IF i \in DataIds THEN DataT[i - NSuper].ent ELSE "low"
Drains(b) == b.tag = "raw" /\ b.i \in DataIds => DataT[b.i - NSuper].drain

\* the bytes of host buffer i
HostPage(i) ==
    [head |-> IF i \in SuperIds THEN SuperT[i].magic
              ELSE IF i \in DataIds THEN DataT[i - NSuper].head ELSE "zero",
     len |-> 0, off |-> 0, tag |-> "raw", c |-> "-", i |-> i, p |-> 0, n |-> 0]

ZeroPage == HostPage(0)

\* the bytes of buffer b read as a struct sqlite3_super
SuperOf(b) ==
    IF b.tag = "raw" /\ b.i \in SuperIds
    THEN [SuperT[b.i] EXCEPT !.magic = b.head]
    ELSE [magic |-> b.head, pagesize |-> 0, max_fraction |-> 0,
          min_fraction |-> 0, leaf_payload |-> 0, schema_format |-> 0,
          freelist_start |-> 0, freelist_pages |-> 0]

\* memcpy(ptr, header, 16): the first 16 bytes replaced
SetHead(b, h) == [b EXCEPT !.head = h, !.len = 0, !.off = 0]

-----------------------------------------------------------------------------
(* The codecs.  The libraries are collaborators: a codec's stream of a     *)
(* page has a length that depends on the page's bytes, and decoding gives  *)
(* the page back only from the whole stream.                               *)

\* the decompress member of a registry row
Decoder(c) == IF c \in {"LZ4D", "LZ4H"} THEN "LZ4_decompress_safe" ELSE c

\* the length of codec c's whole stream of page b (ps bytes)
StreamLen(c, b, ps) ==
    IF b.tag # "raw" THEN ps + 20
    ELSE CASE Ent(b.i) = "low" -> 100
           [] Ent(b.i) = "mid" -> IF Decoder(c) = "LZ4_decompress_safe"
                                  THEN ps + 20 ELSE ps \div 2
           [] OTHER -> ps + 20

\* GZIP_compress, and LZMA_compress and BZIP_compress which share its loop:
\*   do { avail_out = endp - next_out; ret = deflate(Z_FINISH);
\*        if (ret != Z_STREAM_END && ret != Z_OK) return 0;
\*        next_out = endp - avail_out;
\*   } while (avail_in && next_out <= endp);
\*   return next_out - dest;
\* A stream of L <= maxDestSize bytes ends in the first call.  Otherwise the
\* first call fills the output and returns Z_OK; when the library has taken
\* in all the input by then (drained) the loop ends and the function returns
\* maxDestSize, else the second call has no room, returns Z_BUF_ERROR and the
\* function returns 0.
GZIP_compress(L, maxDestSize, drained) ==
    IF L <= maxDestSize THEN L
    ELSE IF drained THEN maxDestSize ELSE 0

\* LZ4_compress_default and LZ4HC_compress: 0 when the stream does not fit
LZ4_compress(L, maxDestSize) == IF L <= maxDestSize THEN L ELSE 0

\* compressor->compress(source, dest, sourceSize, maxDestSize)
Compress(c, b, ps, maxDestSize) ==
    IF c \in {"LZ4D", "LZ4H"}
    THEN LZ4_compress(StreamLen(c, b, ps), maxDestSize)
    ELSE GZIP_compress(StreamLen(c, b, ps), maxDestSize, Drains(b))

\* what dest holds after compress returned ret > 0
StreamOf(c, b, ret) ==
    IF b.tag = "raw"
    THEN [tag |-> "z", c |-> c, i |-> b.i, p |-> b.p, n |-> ret]
    ELSE [tag |-> "garb", c |-> "-", i |-> 0, p |-> 0, n |-> 0]

\* the payload of page b, clen bytes long, is codec c's whole stream
WholeStream(c, b, clen, ps) ==
    /\ b.tag = "z"
    /\ Decoder(b.c) = Decoder(c)
    /\ LET L == StreamLen(b.c, [tag |-> "raw", i |-> b.i], ps)
       IN b.n = L /\ clen = L

\* the payload is a proper prefix of codec c's stream
PrefixStream(c, b, clen, ps) ==
    /\ b.tag = "z"
    /\ Decoder(b.c) = Decoder(c)
    /\ clen <= b.n
    /\ clen < StreamLen(b.c, [tag |-> "raw", i |-> b.i], ps)

\* the page a stream of page b decodes to, its first m bytes when m > 0
Source(b, m) ==
    [HostPage(b.i) EXCEPT !.p = IF m > 0 THEN m ELSE b.p]

\* GZIP_decompress, and LZMA_decompress and BZIP_decompress:
\*   do { ret = inflate(); if (ret != Z_STREAM_END && ret != Z_OK) {
\*            inflateEnd(); return 0; } ...
\*   } while (avail_in && next_out <= endp);
\*   if (avail_in) return -1;
\*   return next_out - dest;
\* A stream error returns 0; a stream cut short leaves inflate at Z_OK with
\* no input left, and the bytes decoded so far are returned.
GZIP_decompress(c, b, clen, ps) ==
    IF WholeStream(c, b, clen, ps)
    THEN [ret |-> ps, out |-> Source(b, 0)]
    ELSE IF PrefixStream(c, b, clen, ps)
    THEN [ret |-> clen, out |-> Source(b, clen)]
    ELSE [ret |-> 0, out |-> ZeroPage]

\* LZ4_decompress_safe: negative on a malformed or short stream
LZ4_decompress_safe(c, b, clen, ps) ==
    IF WholeStream(c, b, clen, ps)
    THEN [ret |-> ps, out |-> Source(b, 0)]
    ELSE [ret |-> -1, out |-> ZeroPage]

\* compressor->decompress(source, dest, compressedSize, maxDecompressedSize)
Decompress(c, b, clen, ps) ==
    IF Decoder(c) = "LZ4_decompress_safe"
    THEN LZ4_decompress_safe(c, b, clen, ps)
    ELSE GZIP_decompress(c, b, clen, ps)

-----------------------------------------------------------------------------
(* The underlying VFS file *)

\* the pages the model follows; with 64K pages the last lies above 2^32 bytes
PageNos == {0, 1, 65537}

SizeLT(a, b) == a.pg < b.pg \/ (a.pg = b.pg /\ a.frac < b.frac)
SizeMax(a, b) == IF SizeLT(a, b) THEN b ELSE a

\* old_write of a whole page
WritePage(fl, pg, b) ==
    [pages |-> [fl.pages EXCEPT ![pg] = b],
     size |-> SizeMax(fl.size, [pg |-> pg + 1, frac |-> 0])]

\* an old_write of k bytes that leaves the file ending behind them
WriteBytes_cuts(fl, pg, b, k) ==
    [pages |-> [fl.pages EXCEPT ![pg] = b],
     size |-> [pg |-> pg, frac |-> k]]

\* old_write of the first k bytes of a page (k below the page size)
WriteBytes(fl, pg, b, k) ==
    [pages |-> [fl.pages EXCEPT ![pg] = b],
     size |-> SizeMax(fl.size, [pg |-> pg, frac |-> k])]

\* old_write(file, COMPDB_FILE_HEADER, 16, 0)
WriteHead(fl, h) ==
    [pages |-> [fl.pages EXCEPT ![0] = SetHead(@, h)],
     size |-> SizeMax(fl.size, [pg |-> 0, frac |-> 16])]

\* xTruncate to a whole number of pages
Truncate(fl, pgs) == [fl EXCEPT !.size = [pg |-> pgs, frac |-> 0]]

\* old_read of a whole page: short when the file ends inside it
OldRead(fl, pg, fault) ==
    IF fault # "OK" THEN [ret |-> fault, buf |-> ZeroPage]
    ELSE IF SizeLT(fl.size, [pg |-> pg + 1, frac |-> 0])
    THEN [ret |-> "IOERR_SHORT_READ", buf |-> ZeroPage]
    ELSE [ret |-> "OK", buf |-> fl.pages[pg]]

-----------------------------------------------------------------------------
(* compdb.c *)

\* the page size a superblock declares
PageSizeOf(super) == IF super.pagesize = 1 THEN 65536 ELSE super.pagesize

\* compdb_sniff with a rejected superblock marking the file all the same
compdb_sniff_marks_rejected(f, super, is_write, h) ==
    LET is_sqlite == super.magic = SQLITE_FILE_HEADER
        is_compr == super.magic = h
    IN  IF \/ (~is_sqlite /\ ~is_compr)
           \/ super.max_fraction # 64 \/ super.min_fraction # 32
           \/ super.leaf_payload # 32 \/ super.schema_format > 4
        THEN [ret |-> "NOTADB", ff |-> [f EXCEPT !.db_type = DB_REGULAR]]
        ELSE IF is_sqlite /\ ~is_write
        THEN [ret |-> "OK", ff |-> [f EXCEPT !.db_type = DB_REGULAR]]
        ELSE [ret |-> "OK",
              ff |-> [db_type |-> DB_COMPRESSED,
                      pagesize |-> PageSizeOf(super),
                      data_start |->
                          (super.freelist_start + 1 + super.freelist_pages)
                              % Pages4G(PageSizeOf(super)),
                      bound |-> super.freelist_start + 1
                                    + super.freelist_pages]]

\* compdb_sniff leaving a pristine superblock pristine in either direction
compdb_sniff_keeps_pristine(f, super, is_write, h) ==
    LET is_sqlite == super.magic = SQLITE_FILE_HEADER
        is_compr == super.magic = h
    IN  IF \/ (~is_sqlite /\ ~is_compr)
           \/ super.max_fraction # 64 \/ super.min_fraction # 32
           \/ super.leaf_payload # 32 \/ super.schema_format > 4
        THEN [ret |-> "NOTADB", ff |-> f]
        ELSE IF is_sqlite
        THEN [ret |-> "OK", ff |-> [f EXCEPT !.db_type = DB_REGULAR]]
        ELSE [ret |-> "OK",
              ff |-> [db_type |-> DB_COMPRESSED,
                      pagesize |-> PageSizeOf(super),
                      data_start |->
                          (super.freelist_start + 1 + super.freelist_pages)
                              % Pages4G(PageSizeOf(super)),
                      bound |-> super.freelist_start + 1
                                    + super.freelist_pages]]

\* compdb_sniff: [ret, ff].  data_start is kept in pages; C computes
\* (freelist_start + 1 + freelist_pages) * pagesize in 32 bits.  bound is a
\* ghost: the same number of pages as the superblock gives it, not wrapped.
compdb_sniff(f, super, is_write, h) ==
    LET is_sqlite == super.magic = SQLITE_FILE_HEADER
        is_compr == super.magic = h
    IN  IF \/ (~is_sqlite /\ ~is_compr)
           \/ super.max_fraction # 64 \/ super.min_fraction # 32
           \/ super.leaf_payload # 32 \/ super.schema_format > 4
        THEN [ret |-> "NOTADB", ff |-> f]
        ELSE IF is_sqlite /\ ~is_write
        THEN [ret |-> "OK", ff |-> [f EXCEPT !.db_type = DB_REGULAR]]
        ELSE [ret |-> "OK",
              ff |-> [db_type |-> DB_COMPRESSED,
                      pagesize |-> PageSizeOf(super),
                      data_start |->
                          (super.freelist_start + 1 + super.freelist_pages)
                              % Pages4G(PageSizeOf(super)),
                      bound |-> super.freelist_start + 1
                                    + super.freelist_pages]]

\* the fault plans of one call: the result of each underlying call it may make
NoFault == [mem |-> "OK", r |-> "OK", w1 |-> "OK", fs |-> "OK", tr |-> "OK",
            w2 |-> "OK", w3 |-> "OK"]
ReadPlans == {NoFault, [NoFault EXCEPT !.r = "IOERR_READ"],
              [NoFault EXCEPT !.mem = "NOMEM"]}
WritePlans == {NoFault,
               [NoFault EXCEPT !.mem = "NOMEM"],
               [NoFault EXCEPT !.w1 = "IOERR_WRITE"],
               [NoFault EXCEPT !.w1 = "IOERR_WRITE", !.w2 = "FULL"],
               [NoFault EXCEPT !.fs = "IOERR_FSTAT"],
               [NoFault EXCEPT !.tr = "IOERR_TRUNCATE"],
               [NoFault EXCEPT !.w2 = "FULL"],
               [NoFault EXCEPT !.w3 = "IOERR_WRITE"]}

\* compdb_read: [ret, out, dec, under] (dec: decompress was called;
\* under: the failed underlying call's result, "OK" when none failed)
compdb_read(f, fl, c, pg, plan) ==
    LET r == OldRead(fl, pg, plan.r)
        ptr == IF f.db_type = DB_COMPRESSED /\ pg = 0
               THEN SetHead(r.buf, SQLITE_FILE_HEADER) ELSE r.buf
    IN  IF r.ret # "OK"
        THEN [ret |-> r.ret, out |-> ptr, dec |-> FALSE, under |-> r.ret]
        ELSE IF \/ f.db_type = DB_REGULAR
                \/ pg + 1 <= f.data_start
                \/ ptr.head # COMPDB_BLOCK_MAGIC
        THEN [ret |-> "OK", out |-> ptr, dec |-> FALSE, under |-> "OK"]
        ELSE IF \/ ptr.len > f.pagesize - BHEAD_SIZE
                \/ ptr.off % Pages4G(f.pagesize) # pg
        THEN [ret |-> "CORRUPT", out |-> ptr, dec |-> FALSE, under |-> "OK"]
        ELSE IF plan.mem # "OK"
        THEN [ret |-> "NOMEM", out |-> ptr, dec |-> FALSE, under |-> "OK"]
        ELSE LET d == Decompress(c, ptr, ptr.len, f.pagesize)
             IN  IF d.ret < 0
                 THEN [ret |-> "CORRUPT", out |-> ptr, dec |-> TRUE,
                       under |-> "OK"]
                 ELSE [ret |-> "OK", out |-> d.out, dec |-> TRUE,
                       under |-> "OK"]

\* the block compdb_write builds: header and stream
Block(c, b, ret, pg) ==
    [head |-> COMPDB_BLOCK_MAGIC, len |-> ret % 65536, off |-> pg] @@
    StreamOf(c, b, ret)

\* no_compr returning success when the write of the file header fails
no_compr_drops_header_error(f, fl, h, pg, b, plan) ==
    IF plan.w2 # "OK" THEN [ret |-> plan.w2, file |-> fl, under |-> plan.w2]
    ELSE IF pg # 0 \/ f.db_type = DB_REGULAR
    THEN [ret |-> "OK", file |-> WritePage(fl, pg, b), under |-> "OK"]
    ELSE IF plan.w3 # "OK"
    THEN [ret |-> "OK", file |-> WritePage(fl, pg, b), under |-> plan.w3]
    ELSE [ret |-> "OK", file |-> WriteHead(WritePage(fl, pg, b), h),
          under |-> "OK"]

\* compdb_write's no_compr tail: [ret, file, under]
no_compr(f, fl, h, pg, b, plan) ==
    IF plan.w2 # "OK" THEN [ret |-> plan.w2, file |-> fl, under |-> plan.w2]
    ELSE IF pg # 0 \/ f.db_type = DB_REGULAR
    THEN [ret |-> "OK", file |-> WritePage(fl, pg, b), under |-> "OK"]
    ELSE IF plan.w3 # "OK"
    THEN [ret |-> plan.w3, file |-> WritePage(fl, pg, b), under |-> plan.w3]
    ELSE [ret |-> "OK", file |-> WriteHead(WritePage(fl, pg, b), h),
          under |-> "OK"]

\* compdb_write: [ret, ff, file, framed, sniff, under, swallowed]
\* framed: a compressed block was written; swallowed: the result of a failed
\* underlying call that the function did not return
compdb_write(f0, fl, c, h, pg, b, plan) ==
    LET sn == IF f0.db_type = DB_UNKNOWN
              THEN compdb_sniff(f0, SuperOf(b), TRUE, h)
              ELSE [ret |-> "OK", ff |-> f0]
        f == sn.ff
        sniff == IF f0.db_type # DB_UNKNOWN THEN "none"
                 ELSE IF sn.ret = "OK" THEN "ok" ELSE "rejected"
        plain == no_compr(f, fl, h, pg, b, plan) @@
                 [ff |-> f, framed |-> FALSE, sniff |-> sniff,
                  swallowed |-> "OK"]
    IN  IF sn.ret # "OK"
        THEN [ret |-> sn.ret, ff |-> f, file |-> fl, framed |-> FALSE,
              sniff |-> sniff, under |-> "OK", swallowed |-> "OK"]
        ELSE IF f.db_type = DB_REGULAR \/ pg + 1 <= f.data_start
        THEN plain
        ELSE IF plan.mem # "OK"
        THEN [ret |-> "NOMEM", ff |-> f, file |-> fl, framed |-> FALSE,
              sniff |-> sniff, under |-> "OK", swallowed |-> "OK"]
        ELSE LET ret == Compress(c, b, f.pagesize, f.pagesize - BHEAD_SIZE)
                 clen == ret + BHEAD_SIZE
                 fl1 == WriteBytes(fl, pg, Block(c, b, ret, pg), clen)
                 done == [ff |-> f, file |-> fl1, framed |-> TRUE,
                          sniff |-> sniff, swallowed |-> "OK"]
             IN  IF ret = 0 THEN plain
                 ELSE IF plan.w1 # "OK"
                 THEN [plain EXCEPT !.swallowed = plan.w1]
                 ELSE IF plan.fs # "OK"
                 THEN done @@ [ret |-> plan.fs, under |-> plan.fs]
                 ELSE IF SizeLT(fl1.size, [pg |-> pg + 1, frac |-> 0])
                 THEN IF plan.tr # "OK"
                      THEN done @@ [ret |-> plan.tr, under |-> plan.tr]
                      ELSE [done EXCEPT !.file = Truncate(fl1, pg + 1)] @@
                           [ret |-> "OK", under |-> "OK"]
                 ELSE done @@ [ret |-> "OK", under |-> "OK"]

\* the underlying call that truncates the file to the end of the block
\* before the block is written, followed by the write and the truncate up
compdb_write_calls_shrink_first(fl, pg, clen, plan) ==
    <<[call |-> "xTruncate", pg |-> pg, frac |-> clen, len |-> 0],
      [call |-> "old_write", pg |-> pg, frac |-> 0, len |-> clen],
      [call |-> "xTruncate", pg |-> pg + 1, frac |-> 0, len |-> 0]>>

\* compdb_write from "Write compressed data" on: the underlying calls it
\* makes for a block of clen bytes at page pg, up to its return or its jump
\* to no_compr.  pg and frac are the offset written at or the size asked for
compdb_write_calls(fl, pg, clen, plan) ==
    LET w == [call |-> "old_write", pg |-> pg, frac |-> 0, len |-> clen]
        s == [call |-> "xFileSize", pg |-> 0, frac |-> 0, len |-> 0]
        t == [call |-> "xTruncate", pg |-> pg + 1, frac |-> 0, len |-> 0]
        isize == SizeMax(fl.size, [pg |-> pg, frac |-> clen])
    IN  IF plan.w1 # "OK" THEN <<w>>
        ELSE IF plan.fs # "OK" THEN <<w, s>>
        ELSE IF SizeLT(isize, [pg |-> pg + 1, frac |-> 0]) THEN <<w, s, t>>
        ELSE <<w, s>>

\* compdb_open: [ret, ff, opened].  The handle starts DB_UNKNOWN; a file
\* shorter than the 100-byte superblock is left unknown.
NewFile == [db_type |-> DB_UNKNOWN, pagesize |-> 0, data_start |-> 0,
            bound |-> 0]

compdb_open(fl, h, fault) ==
    LET short == fl.size.pg = 0 /\ fl.size.frac < 100
    IN  IF fault = "OK" /\ short
        THEN [ret |-> "OK", ff |-> NewFile, opened |-> TRUE, sniff |-> "none"]
        ELSE IF fault # "OK"
        THEN [ret |-> fault, ff |-> NewFile, opened |-> FALSE, sniff |-> "none"]
        ELSE LET sn == compdb_sniff(NewFile, SuperOf(fl.pages[0]), FALSE, h)
             IN  IF sn.ret # "OK"
                 THEN [ret |-> sn.ret, ff |-> NewFile, opened |-> FALSE,
                       sniff |-> "rejected"]
                 ELSE [ret |-> "OK", ff |-> sn.ff, opened |-> TRUE,
                       sniff |-> "ok"]

-----------------------------------------------------------------------------
(* The host: one SQL engine working on one database file through the shim *)

\* superblocks the sniffer accepts
ValidSupers ==
    {i \in SuperIds : compdb_sniff(NewFile, SuperT[i], TRUE, "-").ret = "OK"}

\* a compressed block as a file may hold it
Frame(c, i, len, off, tag) ==
    [head |-> COMPDB_BLOCK_MAGIC, len |-> len, off |-> off, tag |-> tag,
     c |-> IF tag = "z" THEN c ELSE "-", i |-> IF tag = "z" THEN i ELSE 0,
     p |-> 0, n |-> IF tag = "z" THEN len ELSE 0]

EmptyPages == [p \in PageNos |-> ZeroPage]
Pages2(a, b) == [EmptyPages EXCEPT ![0] = a, ![1] = b]
FirstData == NSuper + 1
TwoPages == [pg |-> 2, frac |-> 0]

\* the files a handle may be opened on: a new file, a pristine database, and
\* databases of the registered codec some of whose blocks are damaged
InitFiles(c) ==
    LET super == SetHead(HostPage(1), COMPDB_FILE_TEMPLATE(c))
    IN  { [pages |-> EmptyPages, size |-> [pg |-> 0, frac |-> 0]],
          [pages |-> Pages2(HostPage(1), HostPage(FirstData)), size |-> TwoPages],
          \* page 1 declares a length above page_size - 8
          [pages |-> Pages2(super, Frame(c, FirstData, 65535, 1, "z")),
           size |-> TwoPages],
          \* page 1 holds no stream
          [pages |-> Pages2(super, Frame(c, FirstData, 100, 1, "garb")),
           size |-> TwoPages],
          \* page 1 carries page number 2
          [pages |-> Pages2(super, Frame(c, FirstData, 100, 2, "z")),
           size |-> TwoPages],
          \* page 1 carries page number 65537
          [pages |-> Pages2(super, Frame(c, FirstData, 100, 65537, "z")),
           size |-> TwoPages] }

IdleOp == [op |-> "none", pg |-> 0, i |-> 0, ret |-> "OK", out |-> ZeroPage,
           dec |-> FALSE, framed |-> FALSE, sniff |-> "none", under |-> "OK",
           swallowed |-> "OK", before |-> DB_UNKNOWN, onDisk |-> ZeroPage]

IdleSk == [pc |-> "off"]
IdleCo == [pc |-> "off"]
IdleMp == [pc |-> "off"]

Init ==
    /\ cengine \in compressors
    /\ hdr = COMPDB_FILE_TEMPLATE(cengine)
    /\ file \in InitFiles(cengine)
    /\ opened = FALSE
    /\ ff = NewFile
    /\ written = [p \in PageNos |-> 0]
    /\ lastOp = IdleOp
    /\ sk = IdleSk
    /\ co = IdleCo
    /\ mp = IdleMp

\* sqlite3_open through the shim's xOpen
HostOpenWith(faults) ==
    /\ ~opened
    /\ \E fault \in faults :
         LET r == compdb_open(file, hdr, fault)
         IN  /\ opened' = r.opened
             /\ ff' = r.ff
             /\ lastOp' = [IdleOp EXCEPT !.op = "open", !.ret = r.ret,
                                         !.sniff = r.sniff, !.under = fault]
    /\ UNCHANGED <<cengine, hdr, file, written, sk, co, mp>>

\* the host closes the file: the handle and its struct compdb_file go away
HostClose ==
    /\ opened
    /\ opened' = FALSE
    /\ ff' = NewFile
    /\ lastOp' = [IdleOp EXCEPT !.op = "close"]
    /\ UNCHANGED <<cengine, hdr, file, written, sk, co, mp>>

\* the buffers the engine writes at a page: a superblock at page 0 (of the
\* database's page size once that is known), b-tree data elsewhere
HostBufs(pg) ==
    IF pg # 0 THEN DataIds
    ELSE IF ff.db_type = DB_UNKNOWN THEN SuperIds
    ELSE {i \in ValidSupers :
            ff.db_type = DB_COMPRESSED =>
                PageSizeOf(SuperT[i]) = ff.pagesize}

\* xWrite of one page (the engine writes page 0 first: assert(iOfst == 0))
HostWriteWith(plans, pages) ==
    /\ opened
    /\ \E pg \in pages, plan \in plans :
         /\ ff.db_type = DB_UNKNOWN => pg = 0
         /\ \E i \in HostBufs(pg) :
              LET r == compdb_write(ff, file, cengine, hdr, pg, HostPage(i),
                                    plan)
              IN  /\ ff' = r.ff
                  /\ file' = r.file
                  /\ written' = [written EXCEPT
                                   ![pg] = IF r.ret = "OK" THEN i ELSE 0]
                  /\ lastOp' = [IdleOp EXCEPT
                                  !.op = "write", !.pg = pg, !.i = i,
                                  !.ret = r.ret, !.framed = r.framed,
                                  !.sniff = r.sniff, !.under = r.under,
                                  !.swallowed = r.swallowed,
                                  !.before = ff.db_type,
                                  !.onDisk = r.file.pages[pg]]
    /\ UNCHANGED <<cengine, hdr, opened, sk, co, mp>>

\* xRead of one page (assert(iOfst == 0 || db_type != DB_UNKNOWN))
HostReadWith(plans, pages) ==
    /\ opened
    /\ \E pg \in pages, plan \in plans :
         /\ ff.db_type = DB_UNKNOWN => pg = 0
         /\ LET r == compdb_read(ff, file, cengine, pg, plan)
            IN  lastOp' = [IdleOp EXCEPT
                             !.op = "read", !.pg = pg, !.ret = r.ret,
                             !.out = r.out, !.dec = r.dec, !.under = r.under,
                             !.before = ff.db_type,
                             !.onDisk = file.pages[pg]]
    /\ UNCHANGED <<cengine, hdr, file, opened, ff, written, sk, co, mp>>

\* an underlying VFS that never fails
HostOpen == HostOpenWith({"OK"})
HostWrite == HostWriteWith({NoFault}, PageNos)
HostRead == HostReadWith({NoFault}, PageNos)

Next == HostOpen \/ HostClose \/ HostWrite \/ HostRead

Spec == Init /\ [][Next]_vars

\* an underlying VFS whose calls may fail, under a new database
InitIO ==
    /\ Init
    /\ file.size.pg = 0

HostOpenIO == HostOpenWith({"OK", "IOERR_READ"})
HostWriteIO == HostWriteWith(WritePlans, {0, 1})
HostReadIO == HostReadWith(ReadPlans, {0, 1})

NextIO == HostOpenIO \/ HostClose \/ HostWriteIO \/ HostReadIO

SpecIO == InitIO /\ [][NextIO]_vars

\* a host that registers further shims while the file is in use: compdb_init
\* for a shim with codec c prints that codec's name into COMPDB_FILE_HEADER,
\* the one header of the process; the file's own shim and its codec stay
HostInit ==
    /\ \E c \in compressors : hdr' = COMPDB_FILE_TEMPLATE(c)
    /\ UNCHANGED <<cengine, file, opened, ff, written, lastOp, sk, co, mp>>

NextInit == HostInit \/ HostOpen \/ HostClose \/ HostWrite \/ HostRead

SpecInit == Init /\ [][NextInit]_vars

-----------------------------------------------------------------------------
(* shrinkmapper.c: the offline recompressor.  Its files are kept like the    *)
(* shim's, over the pages 0..NShrinkPages-1.                                 *)

NShrinkPages == 3
ShrinkPageNos == 0..(NShrinkPages - 1)
EUCLEAN == 117

NoFile == [pages |-> [p \in ShrinkPageNos |-> ZeroPage],
           size |-> [pg |-> 0, frac |-> 0]]

\* what struct compdb_info's type, pagesize and datastart may hold before
\* sniff assigns them (main does not initialise cdb)
UninitInfo ==
    {[type |-> DB_UNKNOWN, pagesize |-> 4096, datastart |-> 0],
     [type |-> DB_COMPRESSED, pagesize |-> 65536, datastart |-> 1]}

\* sniff: [ret, cdb]
sniff(super, cdb) ==
    LET is_sqlite == super.magic = SQLITE_FILE_HEADER
        is_compr == super.magic = cdb.in_file_header
    IN  IF \/ (~is_sqlite /\ ~is_compr)
           \/ super.max_fraction # 64 \/ super.min_fraction # 32
           \/ super.leaf_payload # 32 \/ super.schema_format > 4
        THEN [ret |-> EUCLEAN, cdb |-> cdb]
        ELSE [ret |-> 0,
              cdb |-> [cdb EXCEPT
                         !.type = IF is_sqlite THEN DB_REGULAR
                                  ELSE DB_COMPRESSED,
                         !.pagesize = PageSizeOf(super),
                         !.datastart =
                             (super.freelist_start + 1 + super.freelist_pages)
                                 % Pages4G(PageSizeOf(super))]]

\* main up to the page loop, on infile with the codecs named on the command
\* line: the fields of the run it starts; ret is what sniff returned
main_open(infile, inname, outname, junk) ==
    LET cdb0 == junk @@ [in_file_header |-> COMPDB_FILE_TEMPLATE(inname),
                         out_file_header |-> COMPDB_FILE_TEMPLATE(outname)]
        short == infile.size.pg = 0 /\ infile.size.frac < 100
        sn == sniff(SuperOf(infile.pages[0]), cdb0)
        run == [inc |-> inname, outc |-> outname, src |-> infile,
                dst |-> NoFile, page |-> 0]
    IN  IF short
        THEN run @@ [pc |-> "exit", rc |-> 2, cdb |-> cdb0, ret |-> 0]
        ELSE IF sn.ret < 0
        THEN run @@ [pc |-> "exit", rc |-> 2, cdb |-> cdb0, ret |-> sn.ret]
        ELSE run @@ [pc |-> "copy", rc |-> 0, cdb |-> sn.cdb,
                     ret |-> sn.ret]

\* nr_pages = (sb.st_size + cdb.pagesize - 1) / cdb.pagesize
nr_pages(fl) == fl.size.pg + (IF fl.size.frac > 0 THEN 1 ELSE 0)

\* the buffer outp points at when the target codec returns 0 after
\* swap(bin, bout): the block read from infile, whose payload the failed
\* compress call may have written over (clobber) with the start of its stream
StaleBlock(b, outc, page, clobber) ==
    IF clobber
    THEN [b EXCEPT !.tag = "z", !.c = outc, !.i = page.i, !.p = page.p,
                   !.n = b.len]
    ELSE b

\* the page loop's "Transform buffer" step for the page b read at page:
\* [rc, out, outlen], rc 0 when the loop goes on to write out
Transform(cdb, inc, outc, page, b, clobber) ==
    LET ps == cdb.pagesize
        try_compress(bin, outp) ==
            LET ret == Compress(outc, bin, ps, ps - BHEAD_SIZE)
            IN  IF ret > 0
                THEN [rc |-> 0, out |-> Block(outc, bin, ret, page),
                      outlen |-> ret + BHEAD_SIZE]
                ELSE [rc |-> 0, out |-> outp, outlen |-> ps]
    IN  IF (cdb.type = DB_REGULAR \/ inc # outc) /\ page = 0
        THEN [rc |-> 0, out |-> SetHead(b, cdb.out_file_header),
              outlen |-> ps]
        ELSE IF /\ cdb.type = DB_COMPRESSED
                /\ b.head = COMPDB_BLOCK_MAGIC
                /\ b.off = page
        THEN IF inc = outc
             THEN [rc |-> 0, out |-> b, outlen |-> b.len + BHEAD_SIZE]
             ELSE LET d == Decompress(inc, b, b.len, ps)
                  IN  IF d.ret <= 0
                      THEN [rc |-> 3, out |-> b, outlen |-> 0]
                      ELSE try_compress(d.out,
                                        StaleBlock(b, outc, d.out, clobber))
        ELSE IF page + 1 > cdb.datastart
        THEN try_compress(b, b)
        ELSE [rc |-> 0, out |-> b, outlen |-> ps]

\* ftruncate(fdout, page * pagesize + outlen); pwrite(fdout, outp, outlen);
\* ftruncate(fdout, (page + 1) * pagesize) when outlen is not a whole page
PutPage(fl, page, out, outlen, ps) ==
    LET cut == IF outlen = ps THEN [pg |-> page + 1, frac |-> 0]
               ELSE [pg |-> page, frac |-> outlen]
        f1 == [fl EXCEPT !.size = cut]
        f2 == [f1 EXCEPT !.pages[page] = out]
    IN  IF outlen # ps THEN Truncate(f2, page + 1) ELSE f2

\* a database of NShrinkPages pages written through the shim registered
\* with codec c: the host buffers bufs, page by page
RECURSIVE ShimWrites(_, _, _, _, _)
ShimWrites(f, fl, c, bufs, pg) ==
    IF pg = NShrinkPages THEN fl
    ELSE LET r == compdb_write(f, fl, c, COMPDB_FILE_TEMPLATE(c), pg,
                               HostPage(bufs[pg]), NoFault)
         IN  ShimWrites(r.ff, r.file, c, bufs, pg + 1)

\* the same buffers written with no shim
PlainWrites(bufs) ==
    [pages |-> [p \in ShrinkPageNos |-> HostPage(bufs[p])],
     size |-> [pg |-> NShrinkPages, frac |-> 0]]

\* the host buffers of a database: a superblock and data pages
ShrinkBufs ==
    {bufs \in [ShrinkPageNos -> SuperIds \cup DataIds] :
        /\ bufs[0] \in ValidSupers
        /\ \A p \in ShrinkPageNos \ {0} : bufs[p] \in DataIds}

\* a read of page pg of file fl through a shim registered with codec c:
\* compdb_open, then compdb_read
ShimRead(c, fl, pg) ==
    LET o == compdb_open(fl, COMPDB_FILE_TEMPLATE(c), "OK")
        r == compdb_read(o.ff, fl, c, pg, NoFault)
    IN  IF o.ret # "OK" THEN [ret |-> o.ret, out |-> ZeroPage]
        ELSE [ret |-> r.ret, out |-> r.out]

IdleShrink ==
    [pc |-> "idle", rc |-> 0, ret |-> 0, pass |-> 0, A |-> "GZIP",
     kind |-> "none",
     orig |-> NoFile, inc |-> "GZIP", outc |-> "GZIP", src |-> NoFile,
     dst |-> NoFile, page |-> 0,
     cdb |-> [type |-> DB_UNKNOWN, pagesize |-> 0, datastart |-> 0,
              in_file_header |-> "", out_file_header |-> ""]]

InitShrink ==
    /\ cengine = "GZIP"
    /\ hdr = COMPDB_FILE_TEMPLATE(cengine)
    /\ file = [pages |-> EmptyPages, size |-> [pg |-> 0, frac |-> 0]]
    /\ opened = FALSE
    /\ ff = NewFile
    /\ written = [p \in PageNos |-> 0]
    /\ lastOp = IdleOp
    /\ sk = IdleShrink
    /\ co = IdleCo
    /\ mp = IdleMp

\* shrinkmapper db out A B, on a database compressed with A, a pristine one
\* or a foreign file: one whose first page carries the header of a codec
\* other than A
ShrinkStart ==
    /\ sk.pc = "idle"
    /\ \E A \in compressors, B \in shrink_compressors, bufs \in ShrinkBufs,
          kind \in {"compressed", "pristine", "foreign"},
          junk \in UninitInfo, A2 \in compressors :
         LET db == IF kind = "pristine" THEN PlainWrites(bufs)
                   ELSE ShimWrites(NewFile, NoFile, A2, bufs, 0)
         IN  /\ (kind = "foreign") = (A2 # A)
             /\ sk' = main_open(db, A, B, junk) @@
                       [pass |-> 1, A |-> A, kind |-> kind, orig |-> db]
    /\ UNCHANGED <<cengine, hdr, file, opened, ff, written, lastOp, co, mp>>

\* one turn of main's page loop
ShrinkPage ==
    /\ sk.pc = "copy"
    /\ sk.page < nr_pages(sk.src)
    /\ \E clobber \in BOOLEAN :
         LET t == Transform(sk.cdb, sk.inc, sk.outc, sk.page,
                            sk.src.pages[sk.page], clobber)
         IN  sk' = IF t.rc # 0
                   THEN [sk EXCEPT !.pc = "exit", !.rc = t.rc]
                   ELSE [sk EXCEPT
                           !.dst = PutPage(sk.dst, sk.page, t.out,
                                           t.outlen, sk.cdb.pagesize),
                           !.page = @ + 1]
    /\ UNCHANGED <<cengine, hdr, file, opened, ff, written, lastOp, co, mp>>

\* the loop ends: close and return 0
ShrinkExit ==
    /\ sk.pc = "copy"
    /\ sk.page = nr_pages(sk.src)
    /\ sk' = [sk EXCEPT !.pc = "exit", !.rc = 0]
    /\ UNCHANGED <<cengine, hdr, file, opened, ff, written, lastOp, co, mp>>

\* shrinkmapper out back B A, on the first run's output
ShrinkBack ==
    /\ sk.pc = "exit"
    /\ sk.rc = 0
    /\ sk.pass = 1
    /\ \E junk \in UninitInfo :
         sk' = main_open(sk.dst, sk.outc, sk.inc, junk) @@
               [pass |-> 2, A |-> sk.A, kind |-> sk.kind, orig |-> sk.orig]
    /\ UNCHANGED <<cengine, hdr, file, opened, ff, written, lastOp, co, mp>>

NextShrink == ShrinkStart \/ ShrinkPage \/ ShrinkExit \/ ShrinkBack

SpecShrink == InitShrink /\ [][NextShrink]_vars

-----------------------------------------------------------------------------
(* The mappers' extent coalescers.  An extent is [p_off, l_off, len, state]  *)
(* in the walker's own units:                                                *)
(*   xfs  struct xfs_extent_t, in units of 2^32 bytes (65536 blocks of 64K); *)
(*        a raw extent is shorter than 2^21 blocks, 32 units;                *)
(*   e2   struct ext2fs_extent (e_pblk, e_lblk, e_len, e_flags & UNINIT), in *)
(*        units of 16384 blocks of 4096 bytes; a raw extent has at most      *)
(*        32768 blocks (32767 when uninitialised) and ends below logical     *)
(*        block 2^32;                                                        *)
(*   fat  (pclus, lclus, len) in clusters; a raw extent is one cluster.      *)

\* (1ULL << 60) bytes in units of 2^32 bytes
MAX_EXTENT_LENGTH == 268435456
\* 2^32, where the 32 bits of e_len wrap, in units of 16384 blocks
E_LEN_MOD == 262144
\* the raw extents a walk is followed for
MaxFed == 3

NoExtent == [p_off |-> 0, l_off |-> 0, len |-> 0, state |-> 0]

\* how many of the walker's units make 2^32 bytes
UnitsPer4G(w) ==
    CASE w.fs = "xfs" -> 1
      [] w.fs = "e2" -> 64
      [] OTHER -> Pages4G(w.cluster_size)

\* filemapper.h's insert_extent (xfs, fat): the extent goes to the database,
\* or the database fails and base.db_err is set
insert_extent(w, x, fail) ==
    IF fail THEN [w EXCEPT !.db_err = TRUE, !.rejected = TRUE]
    ELSE [w EXCEPT !.emitted = Append(@, x)]

\* wf->db_err = insert_extent(...) with e2mapper.c's insert_extent, which
\* returns the database's result
e2_insert_extent(w, x, fail) ==
    IF fail THEN [w EXCEPT !.db_err = TRUE, !.rejected = TRUE]
    ELSE [w EXCEPT !.emitted = Append(@, x), !.db_err = FALSE]

\* insert_xfs_extent: the extent is handed to insert_extent
insert_xfs_extent(w, xext, fail) == insert_extent(w, xext, fail)

\* xfsmapper.c iterate_fork_mappings, XFS_DINODE_FMT_EXTENTS: the xext handed
\* on for the record ext that xfs_bmbt_get_all decoded.  xext was zeroed by
\* memset and p_off, l_off and len are assigned; ext.br_state is not, so
\* state stays 0 (XFS_EXT_NORM)
iterate_fork_mappings(ext) ==
    [p_off |-> ext.p_off, l_off |-> ext.l_off, len |-> ext.len, state |-> 0]

\* xfsmapper.c walk_extent_helper
walk_extent_helper(w, extent, fail) ==
    IF w.last.len # 0
    THEN IF /\ w.last.p_off + w.last.len = extent.p_off
            /\ w.last.l_off + w.last.len = extent.l_off
            /\ w.last.state = extent.state
            /\ w.last.len + extent.len <= MAX_EXTENT_LENGTH
         THEN [w EXCEPT !.last.len = @ + extent.len, !.ret = 0]
         ELSE LET ins == insert_xfs_extent(w, w.last, fail)
              IN  IF ins.db_err THEN [ins EXCEPT !.ret = -1]
                  ELSE [ins EXCEPT !.last = extent, !.ret = 0]
    ELSE [w EXCEPT !.last = extent, !.ret = 0]

\* e2mapper.c walk_extents: one turn of the loop.  kind is what e_flags say
\* of the extent: "second" (SECOND_VISIT), "node" (not LEAF) or "leaf".
\* pc "out" is the jump to the out label with db_err set.
walk_extents(w, extent, kind, fail) ==
    IF kind = "second" THEN w
    ELSE IF kind = "node"
    THEN LET ins == e2_insert_extent(w, [extent EXCEPT !.len = 0], fail)
         IN  IF ins.db_err THEN [ins EXCEPT !.pc = "out"] ELSE ins
    ELSE IF w.last.len # 0
    THEN LET end == (w.last.len + extent.len) % E_LEN_MOD
         IN  IF /\ w.last.p_off + w.last.len = extent.p_off
                /\ w.last.l_off + w.last.len = extent.l_off
                /\ w.last.state = extent.state
                /\ end < E_LEN_MOD
             THEN [w EXCEPT !.last.len = (@ + extent.len) % E_LEN_MOD]
             ELSE LET ins == e2_insert_extent(w, w.last, fail)
                  IN  IF ins.db_err THEN [ins EXCEPT !.pc = "out"]
                      ELSE [ins EXCEPT !.last = extent]
    ELSE [w EXCEPT !.last = extent]

\* e2mapper.c find_blocks, the callback of ext2fs_block_iterate3 for a
\* block-mapped file: blocknr is the block, blockcnt its logical number, or
\* negative for an indirect block.  The extent is counted in blocks.  end is
\* the 32-bit sum e_len + 1 held in 64 bits, so end < (1ULL << 32) is true.
find_blocks(w, blocknr, blockcnt, fail) ==
    IF blockcnt < 0
    THEN e2_insert_extent(w, [p_off |-> blocknr, l_off |-> 0, len |-> 1,
                              state |-> 0], fail)
    ELSE LET next == [w EXCEPT !.last = [p_off |-> blocknr,
                                         l_off |-> blockcnt,
                                         len |-> 1, state |-> 0]]
         IN  IF w.last.len # 0
             THEN IF w.last.p_off + w.last.len = blocknr
                  THEN [w EXCEPT !.last.len = @ + 1]
                  ELSE LET ins == e2_insert_extent(w, w.last, fail)
                       IN  IF ins.db_err THEN ins
                           ELSE [next EXCEPT !.emitted = ins.emitted,
                                             !.db_err = FALSE]
             ELSE next

\* e2mapper.c walk_extents from the out label: retval is the last result of
\* ext2fs_extent_get ("none" for EXT2_ET_EXTENT_NO_NEXT or 0), which the
\* function returns (ret)
walk_extents_out(w, retval, fail) ==
    IF retval = "none" /\ w.last.len # 0
    THEN LET ins == e2_insert_extent(w, w.last, fail)
         IN  IF ins.db_err THEN [ins EXCEPT !.pc = "out"]
             ELSE [ins EXCEPT !.pc = "done"]
    ELSE [w EXCEPT !.pc = "done", !.ret = IF retval = "error" THEN 1 ELSE @]

\* fatmapper.c walk_file_mappings: one turn of the loop over the chain, curr
\* the cluster it stands on.  max_extent = MAX_EXTENT_LENGTH / cluster_size
\* clusters; len + 1 <= max_extent is taken in units of 2^32 bytes.
fat_walk_file_mappings(w, curr, fail) ==
    LET next == [w EXCEPT !.last = [p_off |-> curr, l_off |-> w.lcurr,
                                    len |-> 1, state |-> 0],
                          !.lcurr = @ + 1]
    IN  IF w.last.len # 0
        THEN IF /\ w.last.p_off + w.last.len = curr
                /\ (w.last.len + 1 + UnitsPer4G(w) - 1) \div UnitsPer4G(w)
                       <= MAX_EXTENT_LENGTH
             THEN [w EXCEPT !.last.len = @ + 1, !.lcurr = @ + 1]
             ELSE LET ins == insert_extent(w, w.last, fail)
                  IN  IF ins.db_err THEN [ins EXCEPT !.pc = "done"]
                      ELSE [next EXCEPT !.emitted = ins.emitted]
        ELSE next

\* the tail after the walk: WALK_FORK's and fatmapper's last insert
flush_last(w, fail) ==
    IF w.last.len = 0 THEN [w EXCEPT !.pc = "done"]
    ELSE IF w.fs = "xfs"
    THEN [insert_xfs_extent(w, w.last, fail) EXCEPT !.pc = "done"]
    ELSE [insert_extent(w, w.last, fail) EXCEPT !.pc = "done"]

\* the tails a walk is followed from: none (its start) and tails that
\* earlier merges have grown
StartTails(fs) ==
    CASE fs = "xfs" ->
           {NoExtent,
            [p_off |-> 64, l_off |-> 0, len |-> MAX_EXTENT_LENGTH - 31,
             state |-> 0]}
      [] fs = "e2" ->
           {NoExtent,
            [p_off |-> 64, l_off |-> 0, len |-> E_LEN_MOD - 3, state |-> 0]}
      [] OTHER -> {NoExtent}

\* where the next raw extent may start: at the tail's end or past it
Starts(x) == {x, x + 1}

\* the raw extents the file system may hand to the walker next; state is
\* what the file system records (br_state, EXT2_EXTENT_FLAGS_UNINIT):
\* 0 normal, 1 unwritten
RawExtents(w) ==
    LET p == w.last.p_off + w.last.len
        l == w.last.l_off + w.last.len
    IN  CASE w.fs = "xfs" ->
               [p_off : Starts(p), l_off : Starts(l), len : {1, 31},
                state : {0, 1}]
          [] w.fs = "e2" ->
               {x \in [p_off : Starts(p), l_off : Starts(l), len : {1, 2},
                       state : {0, 1}] :
                    /\ x.state = 1 => x.len = 1
                    /\ x.l_off + x.len <= E_LEN_MOD - 1}
          [] w.fs = "e2blk" ->
               \* the first data block lies behind the group's metadata
               [p_off : IF w.last.len = 0 THEN {8, 9} ELSE Starts(p),
                l_off : Starts(l), len : {1}, state : {0}]
          [] OTHER ->
               \* the first cluster of a chain is cluster 2 or later
               [p_off : IF w.last.len = 0 THEN {2, 3} ELSE Starts(p),
                l_off : {w.lcurr}, len : {1}, state : {0}]

\* rejected records that the store has rejected an insert of this walk
IdleWalk ==
    [pc |-> "idle", fs |-> "none", cluster_size |-> 512, last |-> NoExtent,
     lcurr |-> 0, emitted |-> <<>>, db_err |-> FALSE, ret |-> 0, fed |-> 0,
     in |-> NoExtent, kind |-> "none", tail_state |-> 0,
     rejected |-> FALSE]

\* w after a raw extent went in, with the state the file system records for
\* the raw extent that began the pending tail
Fed(w, extent, kind) ==
    [w EXCEPT !.fed = @ + 1, !.in = extent, !.kind = kind,
              !.tail_state = IF /\ w.last.p_off = extent.p_off
                                /\ w.last.len = extent.len
                             THEN extent.state ELSE @]

InitCoalesce ==
    /\ cengine = "GZIP"
    /\ hdr = COMPDB_FILE_TEMPLATE(cengine)
    /\ file = [pages |-> EmptyPages, size |-> [pg |-> 0, frac |-> 0]]
    /\ opened = FALSE
    /\ ff = NewFile
    /\ written = [p \in PageNos |-> 0]
    /\ lastOp = IdleOp
    /\ sk = IdleSk
    /\ co = IdleWalk
    /\ mp = IdleMp

\* a walker takes up a file
WalkStart ==
    /\ co.pc = "idle"
    /\ \E fs \in {"xfs", "e2", "e2blk", "fat"}, cs \in {512, 32768} :
         \E t \in StartTails(fs) :
           /\ fs # "fat" => cs = 512
           /\ co' = [IdleWalk EXCEPT !.pc = "walk", !.fs = fs,
                                     !.cluster_size = cs, !.last = t,
                                     !.lcurr = t.l_off + t.len]
    /\ UNCHANGED <<cengine, hdr, file, opened, ff, written, lastOp, sk, mp>>

\* iterate_fork_mappings hands the next extent to walk_extent_helper
XfsExtent ==
    /\ co.pc = "walk" /\ co.fs = "xfs" /\ co.fed < MaxFed
    /\ \E extent \in RawExtents(co), fail \in BOOLEAN :
         LET w == walk_extent_helper(co, iterate_fork_mappings(extent), fail)
         IN  co' = [Fed(w, extent, "leaf") EXCEPT
                      !.pc = IF w.ret # 0 THEN "done" ELSE "walk"]
    /\ UNCHANGED <<cengine, hdr, file, opened, ff, written, lastOp, sk, mp>>

\* ext2fs_extent_get gives walk_extents the next extent
E2Extent ==
    /\ co.pc = "walk" /\ co.fs = "e2" /\ co.fed < MaxFed
    /\ \E extent \in RawExtents(co), kind \in {"leaf", "node", "second"},
          fail \in BOOLEAN :
         co' = Fed(walk_extents(co, extent, kind, fail), extent, kind)
    /\ UNCHANGED <<cengine, hdr, file, opened, ff, written, lastOp, sk, mp>>

\* ext2fs_extent_get gives no further extent, or control is at out
E2Out ==
    /\ co.fs = "e2"
    /\ \E retval \in {"none", "error"}, fail \in BOOLEAN :
         /\ \/ co.pc = "walk"
            \/ co.pc = "out" /\ retval = "none"
         /\ co' = walk_extents_out(co, retval, fail)
    /\ UNCHANGED <<cengine, hdr, file, opened, ff, written, lastOp, sk, mp>>

\* ext2fs_block_iterate3 hands find_blocks the next block of a block-mapped
\* file: a data block, or an indirect block (blockcnt < 0); BLOCK_ABORT ends
\* the iteration
E2Block ==
    /\ co.pc = "walk" /\ co.fs = "e2blk" /\ co.fed < MaxFed
    /\ \E extent \in RawExtents(co), kind \in {"block", "ind"},
          fail \in BOOLEAN :
         LET w == find_blocks(co, extent.p_off,
                              IF kind = "ind" THEN -1 ELSE extent.l_off,
                              fail)
         IN  co' = [Fed(w, extent, kind) EXCEPT
                      !.pc = IF w.db_err THEN "done" ELSE "walk"]
    /\ UNCHANGED <<cengine, hdr, file, opened, ff, written, lastOp, sk, mp>>

\* ext2fs_block_iterate3 returns to walk_file_mappings, which goes on to its
\* out label: wf->last is not looked at again
E2BlockEnd ==
    /\ co.pc = "walk" /\ co.fs = "e2blk"
    /\ co' = [co EXCEPT !.pc = "done"]
    /\ UNCHANGED <<cengine, hdr, file, opened, ff, written, lastOp, sk, mp>>

\* next_cluster gives fatmapper's loop the next cluster of the chain
FatCluster ==
    /\ co.pc = "walk" /\ co.fs = "fat" /\ co.fed < MaxFed
    /\ \E extent \in RawExtents(co), fail \in BOOLEAN :
         co' = Fed(fat_walk_file_mappings(co, extent.p_off, fail), extent,
                   "leaf")
    /\ UNCHANGED <<cengine, hdr, file, opened, ff, written, lastOp, sk, mp>>

\* the extents or the chain end: the tail is inserted
WalkEnd ==
    /\ co.pc = "walk" /\ co.fs \in {"xfs", "fat"}
    /\ \E fail \in BOOLEAN : co' = flush_last(co, fail)
    /\ UNCHANGED <<cengine, hdr, file, opened, ff, written, lastOp, sk, mp>>

NextCoalesce ==
    \/ WalkStart \/ XfsExtent \/ E2Extent \/ E2Out \/ E2Block \/ E2BlockEnd
    \/ FatCluster \/ WalkEnd

SpecCoalesce == InitCoalesce /\ [][NextCoalesce]_vars

-----------------------------------------------------------------------------
(* e2mapper's synthetic metadata files: walk_bitmap turns a block bitmap    *)
(* into extents.  Blocks are numbered 0 .. NBitmapBlocks - 1; an extent is  *)
(* [start, loff, len] in blocks.                                            *)

\* ext2fs_blocks_count of the file systems walked
NBitmapBlocks == 5
\* the turns of walk_bitmap's loop that are followed
MaxTurns == 4

BitmapBlocks == 0 .. NBitmapBlocks - 1

\* ext2fs_find_first_set_block_bitmap2(bm, start, end, &out): the first block
\* of start .. end that is in bm, or ENOENT
find_first_set(bm, start, end) ==
    LET hit == {b \in start .. end : b \in bm}
    IN  IF hit = {} THEN [err |-> "ENOENT", out |-> 0]
        ELSE [err |-> "OK", out |-> CHOOSE b \in hit : \A c \in hit : b <= c]

\* ext2fs_find_first_zero_block_bitmap2(bm, start, end, &out)
find_first_zero(bm, start, end) ==
    find_first_set(BitmapBlocks \ bm, start, end)

IdleBitmap ==
    [pc |-> "idle", bm |-> {}, start |-> 0, out |-> 0, loff |-> 0,
     db_err |-> FALSE, emitted |-> <<>>, turns |-> 0]

\* walk_bitmap up to its loop: out stays 0 when no block is set
walk_bitmap_enter(bm) ==
    LET end == NBitmapBlocks - 1
        f == find_first_set(bm, 0, end)
    IN  [IdleBitmap EXCEPT !.bm = bm,
                           !.out = IF f.err = "OK" THEN f.out ELSE 0,
                           !.pc = IF f.err = "OK" THEN "loop" ELSE "done"]

\* walk_bitmap: one turn of the while loop (the library calls do not fail
\* other than with ENOENT)
walk_bitmap(w, fail) ==
    LET end == NBitmapBlocks - 1
        start == w.out
        z == find_first_zero(w.bm, start, end)
        out == IF z.err = "ENOENT" THEN end ELSE z.out
        x == [start |-> start, loff |-> w.loff, len |-> out - start]
    IN  IF fail
        THEN [w EXCEPT !.start = start, !.out = out, !.db_err = TRUE,
                       !.pc = "done", !.turns = @ + 1]
        ELSE LET \* start = out; loff += (out - start) * blocksize
                 f == find_first_set(w.bm, out, end)
             IN  [w EXCEPT !.start = out,
                           !.out = IF f.err = "OK" THEN f.out ELSE out,
                           !.loff = @ + (out - out),
                           !.emitted = Append(@, x),
                           !.turns = @ + 1,
                           !.pc = IF f.err = "OK" THEN "loop" ELSE "done"]

InitBitmap ==
    /\ cengine = "GZIP"
    /\ hdr = COMPDB_FILE_TEMPLATE(cengine)
    /\ file = [pages |-> EmptyPages, size |-> [pg |-> 0, frac |-> 0]]
    /\ opened = FALSE
    /\ ff = NewFile
    /\ written = [p \in PageNos |-> 0]
    /\ lastOp = IdleOp
    /\ sk = IdleSk
    /\ co = IdleCo
    /\ mp = IdleBitmap

\* walk_metadata calls walk_bitmap on one of its block bitmaps
BitmapStart ==
    /\ mp.pc = "idle"
    /\ \E bm \in SUBSET BitmapBlocks : mp' = walk_bitmap_enter(bm)
    /\ UNCHANGED others

\* the loop of walk_bitmap turns once
BitmapTurn ==
    /\ mp.pc = "loop" /\ mp.turns < MaxTurns
    /\ \E fail \in BOOLEAN : mp' = walk_bitmap(mp, fail)
    /\ UNCHANGED others

NextBitmap == BitmapStart \/ BitmapTurn

SpecBitmap == InitBitmap /\ [][NextBitmap]_vars

-----------------------------------------------------------------------------
(* xfsmapper's range maps (struct big_bmap): per AG a btree from keys to    *)
(* states, key k with state t meaning that t holds from k up to the next    *)
(* key.  A map is a function on 0 .. BmapSize whose value is "none" where   *)
(* the btree has no key.  NULL stands for the library's null pointer.       *)

\* bmap_sizes[agno]: ag_size * multiplier
BmapSize == 4
\* the calls of big_bmap_set that are followed
MaxSets == 3

BBMAP_UNUSED == "UNUSED"
BBMAP_INUSE == "INUSE"
BBMAP_BAD == "BAD"

BmapKeys == 0 .. BmapSize
Keys(m) == {k \in BmapKeys : m[k] # "none"}
Lowest(S) == CHOOSE k \in S : \A j \in S : k <= j
Highest(S) == CHOOSE k \in S : \A j \in S : k >= j

\* btree_find: the entry of the lowest key >= key, where the cursor then is
btree_find(m, key) ==
    LET S == {k \in Keys(m) : k >= key}
    IN  IF S = {} THEN [val |-> "NULL", key |-> key]
        ELSE [val |-> m[Lowest(S)], key |-> Lowest(S)]

\* btree_peek_prev: the state of the entry before the cursor
btree_peek_prev(m, cur) ==
    LET S == {k \in Keys(m) : k < cur}
    IN  IF S = {} THEN "NULL" ELSE m[Highest(S)]

\* btree_peek_next, btree_lookup_next: the entry after the cursor; without
\* one the caller's key is left as it was (junk)
btree_peek_next(m, cur, junk) ==
    LET S == {k \in Keys(m) : k > cur}
    IN  IF S = {} THEN [val |-> "NULL", key |-> junk]
        ELSE [val |-> m[Lowest(S)], key |-> Lowest(S)]

\* btree_insert: EEXIST leaves the tree as it is
btree_insert(m, key, val) ==
    IF key \in Keys(m) THEN m ELSE [m EXCEPT ![key] = val]

btree_delete(m, key) == [m EXCEPT ![key] = "none"]

btree_update_value(m, key, val) ==
    IF key \in Keys(m) THEN [m EXCEPT ![key] = val] ELSE m

\* btree_update_key: ENOENT without old_key, EINVAL when new_key would pass
\* a neighbour
btree_update_key(m, old_key, new_key) ==
    LET below == {k \in Keys(m) : k < old_key}
        above == {k \in Keys(m) : k > old_key}
    IN  IF \/ old_key \notin Keys(m)
           \/ above # {} /\ Lowest(above) <= new_key
           \/ below # {} /\ Highest(below) >= new_key
        THEN m
        ELSE [m EXCEPT ![old_key] = "none", ![new_key] = m[old_key]]

\* big_bmap_init: one AG's tree
big_bmap_init ==
    [k \in BmapKeys |-> CASE k = 0 -> BBMAP_UNUSED
                          [] k = BmapSize -> BBMAP_BAD
                          [] OTHER -> "none"]

\* what stands for the tree when an assertion has ended the process
BmapAbort == [k \in BmapKeys |-> "abort"]
\* what stands for big_bmap_test's result then
TestAbort == 0 - 1

\* update_bmap; junk is what next_key holds when btree_peek_next finds no
\* entry; the result is the tree, or BmapAbort where ASSERT fails
update_bmap(bmap, offset, blen, new_state, junk) ==
    LET end == offset + blen
        cur == btree_find(bmap, offset)
        cur_state == cur.val
        cur_key == cur.key
        prev_state == btree_peek_prev(bmap, cur_key)
        next == btree_peek_next(bmap, cur_key, junk)
        next_state == next.val
        next_key == next.key
    IN  IF cur_state = "NULL" THEN bmap
        ELSE IF offset = cur_key
        THEN IF cur_state = new_state THEN bmap
             ELSE IF next_key > end
             THEN IF new_state = prev_state
                  THEN \* #1
                       btree_update_key(bmap, offset, end)
                  ELSE \* #4
                       btree_insert(btree_update_value(bmap, offset,
                                                       new_state),
                                    end, cur_state)
             ELSE IF new_state = next_state
             THEN IF new_state = prev_state
                  THEN \* #3
                       btree_delete(btree_delete(bmap, offset), end)
                  ELSE \* #8
                       btree_delete(btree_update_value(bmap, offset,
                                                       new_state), end)
             ELSE IF new_state = prev_state
             THEN \* #5
                  btree_delete(bmap, offset)
             ELSE \* #6
                  btree_update_value(bmap, offset, new_state)
        ELSE IF prev_state = "NULL" THEN BmapAbort
        ELSE IF prev_state = new_state THEN bmap
        ELSE IF end = cur_key
        THEN IF new_state = cur_state
             THEN \* #7
                  btree_update_key(bmap, end, offset)
             ELSE \* #9
                  btree_insert(bmap, offset, new_state)
        ELSE \* #2
             btree_insert(btree_insert(bmap, offset, new_state), end,
                          prev_state)

\* big_bmap_set: assert(blen), then update_bmap
big_bmap_set(bmap, offset, blen, state, junk) ==
    IF blen = 0 THEN BmapAbort
    ELSE update_bmap(bmap, offset, blen, state, junk)

\* big_bmap_test: 1 when offset is in use, 0 when not, TestAbort where an
\* assert fails
big_bmap_test(bmap, offset) ==
    LET f == btree_find(bmap, offset)
        prev == btree_peek_prev(bmap, f.key)
    IN  IF f.val = "NULL" THEN TestAbort
        ELSE IF offset = f.key
        THEN (IF f.val = BBMAP_INUSE THEN 1 ELSE 0)
        ELSE IF prev = "NULL" THEN TestAbort
        ELSE IF prev = BBMAP_INUSE THEN 1 ELSE 0

\* get_bmap_ext(bmap, agbno, maxbno, &blen) where agbno is a key: blen is
\* left as it was when no entry follows
get_bmap_ext(bmap, agbno, maxbno, blen) ==
    LET n == btree_peek_next(bmap, agbno, agbno)
    IN  IF n.val = "NULL" THEN blen ELSE Min(maxbno, n.key) - agbno

\* __walk_ag_bitmap from the entry at key on: the extents inserted, len
\* being the local that get_bmap_ext fills
RECURSIVE walk_ag_from(_, _, _, _)
walk_ag_from(bmap, key, len, acc) ==
    IF key \notin Keys(bmap) \/ key = BmapSize THEN acc
    ELSE LET l == get_bmap_ext(bmap, key, BmapSize, len)
             n == btree_peek_next(bmap, key, key)
             out == IF bmap[key] = BBMAP_INUSE
                    THEN Append(acc, [start |-> key, loff |-> 0, len |-> l])
                    ELSE acc
         IN  IF n.val = "NULL" THEN out
             ELSE walk_ag_from(bmap, n.key, l, out)

\* __walk_ag_bitmap with a store that takes every insert; junk is what len
\* holds at first
walk_ag_bitmap(bmap, junk) ==
    LET f == btree_find(bmap, 0)
    IN  IF f.val = "NULL" THEN <<>>
        ELSE walk_ag_from(bmap, f.key, junk, <<>>)

IdleBmap ==
    [pc |-> "run", bmap |-> big_bmap_init, nsets |-> 0, op |-> "init",
     offset |-> 0, blen |-> 0, state |-> "none", before |-> big_bmap_init,
     test |-> 0, emitted |-> <<>>]

InitBmap ==
    /\ cengine = "GZIP"
    /\ hdr = COMPDB_FILE_TEMPLATE(cengine)
    /\ file = [pages |-> EmptyPages, size |-> [pg |-> 0, frac |-> 0]]
    /\ opened = FALSE
    /\ ff = NewFile
    /\ written = [p \in PageNos |-> 0]
    /\ lastOp = IdleOp
    /\ sk = IdleSk
    /\ co = IdleCo
    /\ mp = IdleBmap

\* big_bmap_set on a range inside the AG
BmapSet ==
    /\ mp.pc = "run" /\ mp.nsets < MaxSets
    /\ \E offset \in 0 .. BmapSize - 1, blen \in 1 .. BmapSize,
          state \in {BBMAP_UNUSED, BBMAP_INUSE}, junk \in {0, BmapSize + 1} :
         /\ offset + blen <= BmapSize
         /\ LET r == big_bmap_set(mp.bmap, offset, blen, state, junk)
            IN  mp' = [mp EXCEPT
                         !.pc = IF r = BmapAbort THEN "abort" ELSE "run",
                         !.bmap = IF r = BmapAbort THEN @ ELSE r,
                         !.nsets = @ + 1, !.op = "set", !.offset = offset,
                         !.blen = blen, !.state = state, !.before = mp.bmap]
    /\ UNCHANGED others

\* big_bmap_test
BmapTest ==
    /\ mp.pc = "run"
    /\ \E offset \in 0 .. BmapSize - 1 :
         LET r == big_bmap_test(mp.bmap, offset)
         IN  mp' = [mp EXCEPT
                      !.pc = IF r = TestAbort THEN "abort" ELSE "run",
                      !.test = r,
                      !.op = "test", !.offset = offset, !.before = mp.bmap]
    /\ UNCHANGED others

\* __walk_ag_bitmap over the AG
BmapWalk ==
    /\ mp.pc = "run"
    /\ \E junk \in {0, 1} :
         mp' = [mp EXCEPT !.op = "walk", !.before = mp.bmap,
                          !.emitted = walk_ag_bitmap(mp.bmap, junk)]
    /\ UNCHANGED others

NextBmap == BmapSet \/ BmapTest \/ BmapWalk

SpecBmap == InitBmap /\ [][NextBmap]_vars

-----------------------------------------------------------------------------
(* The walk of the directory tree: walk_fs, walk_fs_helper and
   walk_file_mappings of the xfs, ext, ntfs and fat drivers.  The tree is the
   sequence of directory entries in the order the driver's iterator hands
   them over; an inode number that occurs twice is a hard link.  The sink
   records every call that reaches it; budget is how many calls the store
   accepts before it rejects one. *)

MaxDirents == 3
MaxBudget == 20
\* the directories a walk descends into, and the entries of one of them
MaxDescents == 2
MaxListing == 1

\* insert_inode, insert_dentry and insert_extent as the drivers use them:
\* nothing is issued once db_err is set, since every caller returns then
insert(w, rec, ino, fork) ==
    IF w.db_err THEN w
    ELSE IF w.budget = 0
    THEN [w EXCEPT !.db_err = TRUE,
                   !.sink = Append(@, [rec |-> rec, ino |-> ino, fork |-> fork])]
    ELSE [w EXCEPT !.budget = @ - 1,
                   !.sink = Append(@, [rec |-> rec, ino |-> ino, fork |-> fork])]

\* walk_file_mappings of an inode that was never walked, leaving the test of
\* the bitmap of walked inodes out
walk_file_mappings_unseen(w, ino, junk) ==
    CASE w.fs = "xfs" ->
           LET w1 == [w EXCEPT !.ino_bmap =
                          big_bmap_set(@, ino, 1, BBMAP_INUSE, junk)]
               w2 == insert(insert(w1, "extent", ino, "core"),
                            "extent", ino, "data")
           IN  IF w.xattr THEN insert(w2, "extent", ino, "attr") ELSE w2
      [] w.fs = "e2" ->
           LET w1 == insert(w, "extent", ino, "core")
               w2 == IF w.xattr THEN insert(w1, "extent", ino, "attr") ELSE w1
               w3 == insert(w2, "extent", ino, "data")
           IN  [w3 EXCEPT !.iseen = @ \cup {ino}]
      [] w.fs = "ntfs" ->
           LET w1 == insert(w, "extent", ino, "data")
               w2 == IF w.xattr THEN insert(w1, "extent", ino, "attr") ELSE w1
           IN  [w2 EXCEPT !.iseen = @ \cup {ino}]
      [] OTHER -> insert(w, "extent", ino, "data")

\* walk_file_mappings: the inode's own extent and the extents of its forks,
\* unless the inode was walked before.  xfs marks the inode before it emits,
\* e2 and ntfs after; the fat driver keeps no bitmap, every directory entry
\* being an inode of its own
walk_file_mappings(w, ino, junk) ==
    CASE w.fs = "xfs" ->
           IF big_bmap_test(w.ino_bmap, ino) = TestAbort
           THEN [w EXCEPT !.pc = "abort"]
           ELSE IF big_bmap_test(w.ino_bmap, ino) # 0 THEN w
           ELSE walk_file_mappings_unseen(w, ino, junk)
      [] w.fs \in {"e2", "ntfs"} ->
           IF ino \in w.iseen THEN w
           ELSE walk_file_mappings_unseen(w, ino, junk)
      [] OTHER -> walk_file_mappings_unseen(w, ino, junk)

\* walk_fs_helper: one directory entry of directory dir that names inode ino
\* (the fat driver numbers the inodes itself, in wf->ino)
walk_fs_helper(w, dir, ino, junk) ==
    LET i == IF w.fs = "fat" THEN w.next_ino ELSE ino
        w1 == insert(w, "inode", i, "none")
        w2 == IF w.fs = "xfs" /\ dir = 0 THEN w1
              ELSE insert(w1, "dentry", i, "none")
        w3 == IF w2.db_err THEN w2 ELSE walk_file_mappings(w2, i, junk)
    IN  IF w.fs = "fat" /\ ~w3.db_err
        THEN [w3 EXCEPT !.next_ino = @ + 1] ELSE w3

\* walk_fs up to the iteration of the root directory; the root is inode 0
walk_fs(w, junk) ==
    CASE w.fs = "xfs" -> walk_fs_helper(w, 0, 0, junk)
      [] w.fs \in {"e2", "ntfs"} ->
           LET w1 == insert(w, "inode", 0, "none")
           IN  IF w1.db_err THEN w1 ELSE walk_file_mappings(w1, 0, junk)
      [] OTHER ->
           LET w1 == walk_file_mappings(w, w.next_ino, junk)
               w2 == insert(w1, "inode", w.next_ino, "none")
           IN  IF w2.db_err THEN w2 ELSE [w2 EXCEPT !.next_ino = @ + 1]

InitWalk ==
    /\ cengine = "GZIP"
    /\ hdr = COMPDB_FILE_TEMPLATE(cengine)
    /\ file = [pages |-> EmptyPages, size |-> [pg |-> 0, frac |-> 0]]
    /\ opened = FALSE
    /\ ff = NewFile
    /\ written = [p \in PageNos |-> 0]
    /\ lastOp = IdleOp
    /\ sk = IdleSk
    /\ co = IdleCo
    /\ \E fs \in {"xfs", "e2", "ntfs", "fat"}, xattr \in BOOLEAN,
          budget \in 0 .. MaxBudget, n \in 0 .. MaxDirents :
         \E todo \in [1 .. n -> 1 .. BmapSize - 1] :
           mp = [pc |-> "root", fs |-> fs, xattr |-> xattr, budget |-> budget,
                 todo |-> todo, ino_bmap |-> big_bmap_init, iseen |-> {},
                 next_ino |-> 0, sink |-> <<>>, db_err |-> FALSE,
                 descended |-> <<>>]

\* walk_fs is entered
WalkRoot ==
    /\ mp.pc = "root"
    /\ \E junk \in {0, 1} :
         LET w == walk_fs(mp, junk)
         IN  mp' = [w EXCEPT !.pc = IF w.pc = "abort" THEN "abort"
                                     ELSE IF w.db_err \/ w.todo = <<>>
                                     THEN "done" ELSE "dirents"]
    /\ UNCHANGED others

\* the iterator hands the next directory entry to walk_fs_helper.  The entry
\* says whether it names a directory (file_type); when it does and no error
\* is set, walk_fs_helper iterates that directory, whose entries (listing, as
\* read from the disk) are handled before the rest of the parent's.
\* descended lists the directories whose iteration was started this way
WalkDirent ==
    /\ mp.pc = "dirents"
    /\ \E junk \in {0, 1}, isdir \in BOOLEAN, n \in 0 .. MaxListing :
         \E listing \in [1 .. n -> 1 .. BmapSize - 1],
            w \in {walk_fs_helper([mp EXCEPT !.todo = Tail(@)], 1,
                                  Head(mp.todo), junk)} :
           LET i == IF mp.fs = "fat" THEN mp.next_ino ELSE Head(mp.todo)
               down == isdir /\ w.pc # "abort" /\ ~w.db_err
           IN  /\ isdir => Len(mp.descended) < MaxDescents
               /\ ~down => n = 0
               /\ \E w1 \in {IF down
                              THEN [w EXCEPT !.todo = listing \o @,
                                             !.descended = Append(@, i)]
                              ELSE w} :
                    mp' = [w1 EXCEPT
                             !.pc = IF w1.pc = "abort" THEN "abort"
                                    ELSE IF w1.db_err \/ w1.todo = <<>>
                                    THEN "done" ELSE "dirents"]
    /\ UNCHANGED others

NextWalk == WalkRoot \/ WalkDirent

SpecWalk == InitWalk /\ [][NextWalk]_vars

-----------------------------------------------------------------------------
(* main of xfsmapper and e2mapper from the walk of the file system on.
   err is main's local, wf_err and db_err are wf.err and wf.wf_db_err
   (xfsmapper) or main's db_err (e2mapper); status is what main returns.
   e2mapper's walk_fs walks a file with walk_extents, the walker co. *)

InitMain ==
    /\ cengine = "GZIP"
    /\ hdr = COMPDB_FILE_TEMPLATE(cengine)
    /\ file = [pages |-> EmptyPages, size |-> [pg |-> 0, frac |-> 0]]
    /\ opened = FALSE
    /\ ff = NewFile
    /\ written = [p \in PageNos |-> 0]
    /\ lastOp = IdleOp
    /\ sk = IdleSk
    /\ co = IdleWalk
    /\ \E prog \in {"xfs", "e2"} :
         mp = [pc |-> "walk_fs", prog |-> prog, err |-> 0, wf_err |-> 0,
               db_err |-> 0, finished |-> 0, status |-> 0]

\* walk_fs is called.  xfsmapper: it returns with wf.err or wf.wf_db_err
\* set or with neither, and CHECK_ERROR follows.  e2mapper: walk_fs comes
\* to the extents of a file
MainWalkFs ==
    /\ mp.pc = "walk_fs"
    /\ \/ /\ mp.prog = "xfs"
          /\ \E r \in {"ok", "err", "db_err"} :
               mp' = [mp EXCEPT
                        !.wf_err = IF r = "err" THEN 1 ELSE @,
                        !.db_err = IF r = "db_err" THEN 1 ELSE @,
                        !.pc = IF r = "ok" THEN "metadata" ELSE "out"]
          /\ UNCHANGED co
       \/ /\ mp.prog = "e2"
          /\ mp' = [mp EXCEPT !.pc = "walking"]
          /\ co' = [IdleWalk EXCEPT !.pc = "walk", !.fs = "e2"]
    /\ UNCHANGED <<cengine, hdr, file, opened, ff, written, lastOp, sk>>

\* e2mapper: walk_extents has returned and walk_fs returns to main with
\* *db_err = wf.db_err and the driver's error, if any
MainWalkFsDone ==
    /\ mp.pc = "walking" /\ co.pc = "done"
    /\ \E err \in {0, 1} :
         mp' = [mp EXCEPT
                  !.err = err,
                  !.db_err = IF co.db_err THEN 1 ELSE 0,
                  !.pc = IF err # 0 \/ co.db_err THEN "out" ELSE "metadata"]
    /\ UNCHANGED others

\* walk_metadata, the indexing of the database, and xfsmapper's overview
\* caches: each ends with an error of the driver, an error of the store, or
\* none.  e2mapper's run_batch_query returns the store's error in err
MainPhase ==
    /\ mp.pc \in {"metadata", "index", "overview"}
    /\ \E r \in {"ok", "err", "db_err"} :
         /\ mp.pc # "metadata" =>
              r # (IF mp.prog = "xfs" THEN "err" ELSE "db_err")
         /\ mp' = [mp EXCEPT
                     !.err = IF r = "err" /\ mp.prog = "e2" THEN 1 ELSE @,
                     !.wf_err = IF r = "err" /\ mp.prog = "xfs" THEN 1 ELSE @,
                     !.db_err = IF r = "db_err" THEN 1 ELSE @,
                     !.pc = IF r # "ok" \/ mp.pc = "overview" THEN "out"
                            ELSE IF mp.pc = "metadata" THEN "index"
                            ELSE "finalize"]
    /\ UNCHANGED others

\* finalize_fs_stats: UPDATE fs_t SET finished = 1
MainFinalize ==
    /\ mp.pc = "finalize"
    /\ \E ok \in BOOLEAN :
         mp' = [mp EXCEPT
                  !.finished = IF ok THEN 1 ELSE @,
                  !.err = IF ~ok /\ mp.prog = "e2" THEN 1 ELSE @,
                  !.db_err = IF ~ok /\ mp.prog = "xfs" THEN 1 ELSE @,
                  !.pc = IF ok /\ mp.prog = "xfs" THEN "overview" ELSE "out"]
    /\ UNCHANGED others

\* the out label: the database and the file system are closed, err2 is
\* folded into err, and main returns err
MainOut ==
    /\ mp.pc = "out"
    /\ \E err2 \in {0, 1} :
         LET err == IF mp.err = 0 THEN err2 ELSE mp.err
         IN  mp' = [mp EXCEPT !.err = err, !.status = err, !.pc = "exit"]
    /\ UNCHANGED others

NextMain ==
    \/ MainWalkFs \/ E2Extent \/ E2Out \/ MainWalkFsDone \/ MainPhase
    \/ MainFinalize \/ MainOut

SpecMain == InitMain /\ [][NextMain]_vars

-----------------------------------------------------------------------------
(* e2mapper.c: the conversion of a directory entry's name.  A name is a     *)
(* sequence of bytes: 97 stands for a byte that is valid UTF-8 on its own,   *)
(* 255 for a byte that is valid nowhere.  out is every byte the code         *)
(* writes, in order, from the start of the output buffer on.                 *)

\* the longest name of a directory entry, EXT2_NAME_LEN scaled down, and the
\* largest capacity a caller passes
MaxName == 4
MaxOutl == 5

NameBytes == {97, 255}

\* iconv from UTF-8 to UTF-8: it copies valid bytes while there is room; it
\* stops with EILSEQ before an invalid byte and with E2BIG when the output
\* is full: [x, errno, in, out, outl]
RECURSIVE iconv(_, _, _)
iconv(in, out, outl) ==
    IF in = <<>>
    THEN [x |-> 0, errno |-> "none", in |-> in, out |-> out, outl |-> outl]
    ELSE IF Head(in) = 255
    THEN [x |-> -1, errno |-> "EILSEQ", in |-> in, out |-> out,
          outl |-> outl]
    ELSE IF outl = 0
    THEN [x |-> -1, errno |-> "E2BIG", in |-> in, out |-> out, outl |-> outl]
    ELSE iconv(Tail(in), Append(out, Head(in)), outl - 1)

\* icvt: [ret, out]
RECURSIVE icvt(_, _, _)
icvt(in, out, outl) ==
    IF in = <<>>
    THEN IF outl < 1 THEN [ret |-> -1, out |-> out]
         ELSE [ret |-> 0, out |-> Append(out, 0)]
    ELSE LET r == iconv(in, out, outl)
         IN  IF r.x # -1 THEN icvt(r.in, r.out, r.outl)
             ELSE IF r.errno \in {"EILSEQ", "EINVAL"}
             THEN IF r.outl < 3 THEN [ret |-> -1, out |-> r.out]
                  ELSE icvt(Tail(r.in), r.out \o <<239, 191, 189>>,
                            r.outl + 3)
             ELSE [ret |-> -1, out |-> r.out]

\* a directory entry with a name of up to MaxName bytes is about to be
\* handed to walk_fs_helper, or a caller is about to convert such a name
\* into a buffer of outl + 1 bytes
InitIcvt ==
    /\ cengine = "GZIP"
    /\ hdr = COMPDB_FILE_TEMPLATE(cengine)
    /\ file = [pages |-> EmptyPages, size |-> [pg |-> 0, frac |-> 0]]
    /\ opened = FALSE
    /\ ff = NewFile
    /\ written = [p \in PageNos |-> 0]
    /\ lastOp = IdleOp
    /\ sk = IdleSk
    /\ co = IdleCo
    /\ \E n \in 0 .. MaxName, outl \in 0 .. MaxOutl :
         \E name \in [1 .. n -> NameBytes] :
           mp = [pc |-> "dirent", name |-> name, outl |-> outl, sz |-> 0,
                 out |-> <<>>, abort |-> FALSE]

\* walk_fs_helper up to its test of sz (with outl = MaxName), or another call
\* of icvt.  A write past the buffer's outl + 1 bytes lands in the caller's
\* frame, after which anything may follow: the entry may be kept or dropped
Icvt ==
    /\ mp.pc = "dirent"
    /\ LET r == icvt(mp.name, <<>>, mp.outl)
       IN  \E smashed \in BOOLEAN :
             /\ smashed => Len(r.out) > mp.outl + 1
             /\ mp' = [mp EXCEPT !.pc = "named", !.sz = r.ret, !.out = r.out,
                                  !.abort = (r.ret < 0) \/ smashed]
    /\ UNCHANGED others

SpecIcvt == InitIcvt /\ [][Icvt]_vars

-----------------------------------------------------------------------------
(* Properties of the shim *)

\* the last call was a read that old_read served in full
ReadServed == lastOp.op = "read" /\ lastOp.under = "OK"

\* the page the last read found on disk is a compressed block in the handle's
\* b-tree region
ReadOfBlock ==
    /\ ReadServed
    /\ lastOp.before = DB_COMPRESSED
    /\ lastOp.pg + 1 > ff.data_start
    /\ lastOp.onDisk.head = COMPDB_BLOCK_MAGIC

\* C1: on a file classified compressed, a read of a page returns exactly the
\* bytes of the most recent successful write of that page, whatever the codec
\* and however well the bytes compress.  (Stated for the pages below 2^32
\* bytes, where the page-number arithmetic of C8 plays no part.)
C1_RoundTrip ==
    (/\ lastOp.op = "read"
     /\ ff.db_type = DB_COMPRESSED
     /\ lastOp.pg < Pages4G(ff.pagesize)
     /\ written[lastOp.pg] # 0)
    => /\ lastOp.ret = "OK"
       /\ lastOp.out = HostPage(written[lastOp.pg])

\* C2: whenever the codec is called on a block whose payload is not a whole
\* stream of the page, the read returns CORRUPT.
C2_DecodeFailureIsCorrupt ==
    (/\ ReadOfBlock
     /\ lastOp.dec
     /\ ~WholeStream(cengine, lastOp.onDisk, lastOp.onDisk.len, ff.pagesize))
    => lastOp.ret = "CORRUPT"

\* C3: a read of a block whose declared length exceeds page_size - 8 or whose
\* page number differs from offset / page_size returns CORRUPT without
\* calling the codec.
C3_BadFramingIsCorrupt ==
    (/\ ReadOfBlock
     /\ \/ lastOp.onDisk.len > ff.pagesize - BHEAD_SIZE
        \/ lastOp.onDisk.off # lastOp.pg)
    => /\ lastOp.ret = "CORRUPT"
       /\ ~lastOp.dec

\* C4: whenever an underlying read, write, file-size or truncate call fails
\* while the shim serves a read or a write, the host gets that error code,
\* a failed write of a compressed block included.
C4_ErrorsPropagate ==
    lastOp.op \in {"read", "write"}
    => /\ lastOp.under # "OK" => lastOp.ret = lastOp.under
       /\ lastOp.swallowed # "OK" => lastOp.ret = lastOp.swallowed

\* C4 as the code has it: every failed underlying call's error code is
\* returned, except that a failed write of a compressed block is followed by
\* a write of the page uncompressed, whose result is returned instead.
C4_ErrorsPropagateButRetry ==
    lastOp.op \in {"read", "write"}
    => /\ lastOp.under # "OK" => lastOp.ret = lastOp.under
       /\ (lastOp.swallowed # "OK" /\ lastOp.under = "OK")
              => (lastOp.ret = "OK" /\ ~lastOp.framed
                  /\ lastOp.onDisk = HostPage(lastOp.i))

\* a compressed block's write failed and so did the uncompressed retry
C4_RetryFailed ==
    /\ lastOp.op = "write"
    /\ lastOp.swallowed = "IOERR_WRITE"
    /\ lastOp.under = "FULL"
    /\ lastOp.ret = "FULL"

\* C5: no page that ends at or before (freelist_start + 1 + freelist_pages)
\* pages, as the sniffed superblock gives them, is written as a compressed
\* block, and page 0 never is.
C5_HeaderRegionRaw ==
    (lastOp.op = "write" /\ lastOp.framed)
    => /\ lastOp.pg + 1 > ff.bound
       /\ lastOp.pg # 0

\* C6: a handle's classification changes only from unknown and only at a
\* successful sniff; a rejected sniff leaves it unknown.
C6_ClassifiedOnce ==
    [][/\ (lastOp'.op # "close" /\ ff'.db_type # ff.db_type)
            => (ff.db_type = DB_UNKNOWN /\ lastOp'.sniff = "ok")
       /\ lastOp'.sniff = "rejected" => ff'.db_type = DB_UNKNOWN]_vars

\* a handle classified compressed served a later write of page 0 and is
\* still classified compressed
C6_LaterWrite ==
    /\ lastOp.op = "write"
    /\ lastOp.pg = 0
    /\ lastOp.before = DB_COMPRESSED
    /\ ff.db_type = DB_COMPRESSED

C8_PageNumberChecks ==
    (/\ ReadServed
     /\ lastOp.before = DB_COMPRESSED
     /\ written[lastOp.pg] # 0
     /\ lastOp.onDisk.head = COMPDB_BLOCK_MAGIC)
    => /\ lastOp.onDisk.off = lastOp.pg
       /\ lastOp.ret # "CORRUPT"

-----------------------------------------------------------------------------
(* Properties of the shrinker *)

\* the shrinker ran A to B and back on a database compressed with A, and
\* stopped
ShrunkBack ==
    /\ sk.pc = "exit"
    /\ sk.kind = "compressed"
    /\ sk.pass = 2 \/ sk.rc # 0

\* C9: after the shrinker ran A to B and B to A on a database compressed
\* with A, page 0 carries A's header and every page read through the shim
\* registered with A equals the same page of the database.
C9_SwapAndBack ==
    ShrunkBack
    => /\ sk.rc = 0
       /\ sk.dst.pages[0].head = COMPDB_FILE_TEMPLATE(sk.A)
       /\ \A pg \in ShrinkPageNos :
            ShimRead(sk.A, sk.dst, pg) = ShimRead(sk.A, sk.orig, pg)

-----------------------------------------------------------------------------
(* Properties of the coalescers *)

\* the rule: a then b merge iff b starts where a ends, physically and
\* logically, in the same state, and together they are at most 2^60 bytes
MergeRule(w, a, b) ==
    /\ a.p_off + a.len = b.p_off
    /\ a.l_off + a.len = b.l_off
    /\ a.state = b.state
    /\ (a.len + b.len + UnitsPer4G(w) - 1) \div UnitsPer4G(w)
           <= MAX_EXTENT_LENGTH

\* the pending tail as the file system described it
RawTail(w) == [w.last EXCEPT !.state = w.tail_state]

\* x and y cover the same physical and logical range
SameRange(x, y) ==
    x.p_off = y.p_off /\ x.l_off = y.l_off /\ x.len = y.len

\* C10: a raw extent b that comes in while a tail a is pending is merged
\* into a if and only if a.physical + a.length = b.physical and
\* a.logical + a.length = b.logical and a.state = b.state and
\* a.length + b.length <= 2^60 bytes; otherwise a is emitted unchanged and b
\* becomes the tail.  (Taken over the steps in which the database accepts
\* what is emitted.)
C10_MergeRule ==
    [][(/\ co.pc = "walk"
        /\ co'.fed = co.fed + 1
        /\ co'.kind = "leaf"
        /\ co.last.len # 0
        /\ ~co'.db_err)
       => IF MergeRule(co, RawTail(co), co'.in)
          THEN /\ co'.last = [co.last EXCEPT !.len = @ + co'.in.len]
               /\ co'.emitted = co.emitted
          ELSE /\ co'.emitted = Append(co.emitted, co.last)
               /\ SameRange(co'.last, co'.in)]_vars

-----------------------------------------------------------------------------
(* Properties of the metadata walkers *)

\* C11: every extent handed to the record sink has a length of at least 1
\* and at most 2^60 bytes (here: at most the whole file system, which is far
\* below 2^60 bytes); this includes the extents generated from bitmaps.
C11_ExtentLengths ==
    \A i \in 1 .. Len(mp.emitted) :
        /\ mp.emitted[i].len >= 1
        /\ mp.emitted[i].len <= NBitmapBlocks

-----------------------------------------------------------------------------
(* Properties of the coalescers across holes *)

\* C12: a raw extent that starts beyond the logical end of the pending tail
\* (a hole lies between them) is never merged into the tail, physically
\* adjacent or not: the tail is emitted as it is and the raw extent starts a
\* new tail.  This holds for extent-mapped and for block-mapped files.
C12_NoMergeAcrossHole ==
    [][(/\ co.pc = "walk"
        /\ co'.fed = co.fed + 1
        /\ co'.kind \in {"leaf", "block"}
        /\ co.last.len # 0
        /\ co'.in.l_off > co.last.l_off + co.last.len
        /\ ~co'.db_err)
       => /\ co'.emitted = Append(co.emitted, co.last)
          /\ SameRange(co'.last, co'.in)]_vars

-----------------------------------------------------------------------------
(* Properties of the range maps *)

\* C13: after set(group, start, length, tag) has returned, test(group, o)
\* reports tag for every offset o of start .. start + length - 1, whatever
\* the map held before.
C13_SetThenTest ==
    (mp.op = "set" /\ mp.pc = "run")
        => \A o \in mp.offset .. mp.offset + mp.blen - 1 :
              big_bmap_test(mp.bmap, o)
                  = (IF mp.state = BBMAP_INUSE THEN 1 ELSE 0)

\* C14: after creation and after any sequence of set() calls with ranges
\* inside the group, the sentinel key size * multiplier is present, key 0 is
\* present, and no two consecutive keys carry the same tag.
C14_MapWellFormed ==
    mp.pc = "run"
        => /\ BmapSize \in Keys(mp.bmap)
           /\ 0 \in Keys(mp.bmap)
           /\ \A k \in Keys(mp.bmap) :
                 k # 0 => btree_peek_prev(mp.bmap, k) # mp.bmap[k]

-----------------------------------------------------------------------------
(* Properties of the bitmap walkers *)

\* the blocks an extent covers
Covered(x) == x.start .. x.start + x.len - 1

RECURSIVE SumLen(_)
SumLen(xs) == IF xs = <<>> THEN 0 ELSE Head(xs).len + SumLen(Tail(xs))

\* C15: the extents generated from a bitmap cover every in-use block exactly
\* once, a run that reaches the last block included: each extent is a whole
\* run of in-use blocks, no two extents share a block, and when the walk has
\* ended without error the lengths add up to the number of in-use blocks.
C15_BitmapCovered ==
    /\ \A i \in 1 .. Len(mp.emitted) :
          LET x == mp.emitted[i]
          IN  /\ Covered(x) # {}
              /\ Covered(x) \subseteq mp.bm
              /\ x.start + x.len \notin mp.bm
              /\ \A j \in 1 .. Len(mp.emitted) :
                    j # i => Covered(x) \cap Covered(mp.emitted[j]) = {}
    /\ (mp.pc = "done" /\ ~mp.db_err)
          => SumLen(mp.emitted) = Cardinality(mp.bm)

-----------------------------------------------------------------------------
(* Properties of the walk of the directory tree *)

\* the positions of the sink's calls that are extents of inode ino
ExtentsOf(ino) ==
    {i \in 1 .. Len(mp.sink) :
       mp.sink[i].rec = "extent" /\ mp.sink[i].ino = ino}

C17_SinkOrder ==
    \A i \in 1 .. Len(mp.sink) :
      /\ mp.sink[i].rec \in {"extent", "dentry"} =>
           \E j \in 1 .. i - 1 :
             mp.sink[j].rec = "inode" /\ mp.sink[j].ino = mp.sink[i].ino
      /\ mp.sink[i].rec = "extent" =>
           \A k \in i + 1 .. Len(mp.sink) :
             (mp.sink[k].rec = "dentry" /\ mp.sink[k].ino = mp.sink[i].ino)
             => \E j \in 1 .. i - 1 :
                  mp.sink[j].rec = "dentry" /\ mp.sink[j].ino = mp.sink[i].ino
      /\ (mp.sink[i].rec = "extent" /\ mp.sink[i].fork = "data") =>
           \A j \in 1 .. i - 1 :
             ~(/\ mp.sink[j].rec = "extent"
               /\ mp.sink[j].fork = "attr"
               /\ mp.sink[j].ino = mp.sink[i].ino)

-----------------------------------------------------------------------------
(* Properties of main *)

\* C18: the exit status is nonzero whenever a phase failed, that is, when
\* main returns with the driver's error or the store's error set
C18_ExitStatus ==
    (/\ mp.pc = "exit"
     /\ (mp.wf_err # 0 \/ mp.db_err # 0))
    => mp.status # 0

\* C19: once the store has rejected an insert of the walk of the file system
\* or of the metadata walk, no step of the run sets finished to 1
C19_FinishedOnlyClean ==
    [][((co.rejected \/ mp.db_err # 0) /\ mp.finished = 0)
       => mp'.finished = 0]_vars

-----------------------------------------------------------------------------
(* Properties of the shim's underlying calls *)

\* a step in which compdb_write stored a compressed block and returned
\* SQLITE_OK
FramedWrite ==
    /\ opened
    /\ lastOp'.op = "write"
    /\ lastOp'.framed
    /\ lastOp'.ret = "OK"

\* the length of the block that step wrote, framing included
FramedLen ==
    Compress(cengine, HostPage(lastOp'.i), ff'.pagesize,
             ff'.pagesize - BHEAD_SIZE) + BHEAD_SIZE

-----------------------------------------------------------------------------
(* Properties of the walkers' error state *)

\* C21: once db_err is set in a walk, no further extent goes to the store in
\* that walk and db_err is still set in every later state of the walk, the
\* one in which it returns included
C21_StickyError ==
    [][co.db_err => (co'.emitted = co.emitted /\ co'.db_err)]_vars

-----------------------------------------------------------------------------
(* Properties of the end of a fork's walk *)

\* C22: when the walk of a fork has finished without error, the pending tail
\* has been passed to the sink, for extent-mapped and for block-mapped files
C22_TailFlushed ==
    (/\ co.pc = "done"
     /\ co.ret = 0
     /\ ~co.db_err
     /\ ~co.rejected
     /\ co.last.len # 0)
    => \E i \in 1 .. Len(co.emitted) : co.emitted[i] = co.last

-----------------------------------------------------------------------------
(* Properties of the extent state *)

\* C23: a raw extent that the file system marks unwritten is carried with
\* that state and is never merged with an adjacent extent in the normal
\* state: when a leaf extent comes in whose state differs from the state the
\* file system records for the pending tail, it becomes a tail of its own,
\* and a tail that a raw extent begins has the raw extent's state
C23_UnwrittenKept ==
    [][(/\ co.pc = "walk"
        /\ co'.fed = co.fed + 1
        /\ co'.kind = "leaf"
        /\ ~co'.db_err)
       => /\ (co.last.len # 0 /\ co'.in.state # co.tail_state)
               => SameRange(co'.last, co'.in)
          /\ SameRange(co'.last, co'.in)
               => co'.last.state = co'.in.state]_vars

-----------------------------------------------------------------------------
(* Properties of the recursion of the directory walk *)

\* C24: the walk descends into each directory inode at most once: no inode
\* number occurs twice among the directories whose iteration walk_fs_helper
\* started, however many directory entries lead to the directory
C24_DescendOnce ==
    \A i, j \in 1 .. Len(mp.descended) :
      i < j => mp.descended[i] # mp.descended[j]

-----------------------------------------------------------------------------
(* Properties of the shrinker's check of its input *)

\* C25: when sniff classifies the input as not a database (it returns
\* EUCLEAN), the shrinker has stopped with a nonzero exit status and the
\* output holds no page
C25_NotADatabaseStops ==
    (sk.pc # "idle" /\ sk.ret = EUCLEAN)
    => /\ sk.pc = "exit"
       /\ sk.rc # 0
       /\ sk.dst = NoFile

-----------------------------------------------------------------------------
(* Properties of the conversion of names *)

\* the name with each invalid byte replaced by EF BF BD
RECURSIVE Replaced(_)
Replaced(name) ==
    IF name = <<>> THEN <<>>
    ELSE (IF Head(name) = 255 THEN <<239, 191, 189>> ELSE <<Head(name)>>)
             \o Replaced(Tail(name))

\* C26: a directory entry whose name is not valid UTF-8 is recorded with
\* each invalid byte replaced by EF BF BD and does not abort the iteration
\* of its directory, whatever the length of the name
C26_BadNameKept ==
    (/\ mp.pc = "named"
     /\ mp.outl = MaxName
     /\ \E i \in 1 .. Len(mp.name) : mp.name[i] = 255)
    => /\ ~mp.abort
       /\ mp.out = Append(Replaced(mp.name), 0)

\* C29: icvt writes at most outl bytes of converted name and one
\* terminating zero byte
C29_WithinCapacity ==
    mp.pc = "named" => Len(mp.out) <= mp.outl + 1

-----------------------------------------------------------------------------
(* Properties of the file header *)

\* C27: the header a file's sniff compares against and its write path stores
\* at offset 0 is the header of the codec its own shim was registered with,
\* whatever shims are registered afterwards: a successful write of page 0
\* of a compressed database leaves that header on the disk, and an open
\* that classifies the file as compressed found that header
C27_OwnHeader ==
    /\ (/\ lastOp.op = "write" /\ lastOp.ret = "OK" /\ lastOp.pg = 0
        /\ ff.db_type = DB_COMPRESSED)
       => lastOp.onDisk.head = COMPDB_FILE_TEMPLATE(cengine)
    /\ (/\ lastOp.op = "open" /\ lastOp.ret = "OK"
        /\ ff.db_type = DB_COMPRESSED)
       => file.pages[0].head = COMPDB_FILE_TEMPLATE(cengine)

-----------------------------------------------------------------------------
(* Properties of a write's effect on the rest of the file *)

\* a step in which compdb_write returned SQLITE_OK
GoodWrite ==
    /\ opened
    /\ lastOp'.op = "write"
    /\ lastOp'.ret = "OK"

\* C28: a successful write of one page at offset o through the shim never
\* makes the file shorter and changes no byte outside [o, o + page_size):
\* every other page is as before, every other page the file held reads as
\* before, and the file ends at or after o + page_size
C28_WriteFrame ==
    [][GoodWrite =>
         LET pg == lastOp'.pg
         IN  /\ ~SizeLT(file'.size, file.size)
             /\ ~SizeLT(file'.size, [pg |-> pg + 1, frac |-> 0])
             /\ \A p \in PageNos \ {pg} :
                  /\ file'.pages[p] = file.pages[p]
                  /\ (/\ ff.db_type # DB_UNKNOWN
                      /\ ~SizeLT(file.size, [pg |-> p + 1, frac |-> 0]))
                     => compdb_read(ff', file', cengine, p, NoFault)
                          = compdb_read(ff, file, cengine, p, NoFault)]_vars

\* C28, the case: the first page of a compressed database was written with
\* success while the file holds a compressed block behind it
C28_Witness ==
    /\ lastOp.op = "write"
    /\ lastOp.ret = "OK"
    /\ lastOp.pg = 0
    /\ ff.db_type = DB_COMPRESSED
    /\ file.pages[1].head = COMPDB_BLOCK_MAGIC
    /\ SizeLT([pg |-> 1, frac |-> 0], file.size)

-----------------------------------------------------------------------------
(* Properties of the loop of walk_bitmap *)

\* C30: walk_bitmap terminates on every block bitmap when every insert
\* succeeds: a turn of its loop that is followed by another one moves out
\* forward, so that the loop, whose next turn depends on the bitmap and out
\* only, ends after at most as many turns as there are blocks
C30_BitmapLoopEnds ==
    [][(mp.pc = "loop" /\ mp'.pc = "loop" /\ ~mp'.db_err)
         => mp'.out > mp.out]_vars

====
